---- MODULE Spec2Model ----
(***************************************************************************)
(* The compound identifier resolution engine of src/step-two_v2.py         *)
(* (class ComprehensiveSMILESRetriever): the name normalizer, the SMILES   *)
(* validator, the two resolution cascades (cooperative and worker-pool),   *)
(* the concurrency controller with its fallback, and the run statistics.   *)
(*                                                                         *)
(* A Python str is a sequence of one-character strings; a character        *)
(* outside ASCII is written as its code point ("U+0152").  Python's None   *)
(* for an identifier is the empty sequence (the code tests `if smiles:`,   *)
(* which does not tell None from '').                                      *)
(***************************************************************************)
EXTENDS Integers, Sequences, FiniteSets, TLC

VARIABLES
    cfg,              \* the run's configuration and input (fixed during a run)
    backend_errors,   \* transport errors the backend has raised so far
    phase,            \* "idle", "async", "sync", "done": position of the controller
    fellback,         \* the except branch of process_dataset / quick_smiles_lookup ran
    tasks,            \* one cascade per submitted compound of the current mode
    cache,            \* self.cache
    failed_compounds, \* self.failed_compounds
    processed_count,  \* self.processed_count
    success_count,    \* self.success_count
    strategy_stats,   \* self.strategy_stats
    results,          \* the results dict of the running *_process_compounds
    returned,         \* history: name -> identifier first returned by a cascade
    at_fallback,      \* history: the names cached and failed when the fallback began
    arg,              \* input of the pure function under check
    ret               \* its output

engine_vars == <<cfg, backend_errors, phase, fellback, tasks, cache, failed_compounds,
                 processed_count, success_count, strategy_stats, results, returned,
                 at_fallback>>
vars == <<cfg, backend_errors, phase, fellback, tasks, cache, failed_compounds,
          processed_count, success_count, strategy_stats, results, returned,
          at_fallback, arg, ret>>

----------------------------------------------------------------------------
(* Bounds of the model. *)

\* longest input list of a run
MaxNames == 2
\* largest max_workers a run is configured with
MaxWorkers == 2
\* transport errors (timeouts, connection resets) the backend raises in a run
MaxErrors == 1
\* longest string handed to validate_smiles
MaxSmilesLen == 4
\* longest raw name drawn from the alphabet for clean_compound_name
MaxRawLen == 4

----------------------------------------------------------------------------
(* Python str operations. *)

None == <<>>

IsSpace(c) == c \in {" ", "\t", "\n"}

RECURSIVE lstrip(_)
lstrip(s) == IF s # <<>> /\ IsSpace(Head(s)) THEN lstrip(Tail(s)) ELSE s

RECURSIVE rstrip(_)
rstrip(s) ==
    IF s # <<>> /\ IsSpace(s[Len(s)]) THEN rstrip(SubSeq(s, 1, Len(s) - 1)) ELSE s

\* str.strip()
strip(s) == rstrip(lstrip(s))

\* str.count(c) for a one-character c
count(s, c) == Cardinality({i \in 1..Len(s) : s[i] = c})

\* `x in list`
InSeq(x, seq) == \E i \in 1..Len(seq) : seq[i] = x

Take(seq, n) == SubSeq(seq, 1, IF Len(seq) < n THEN Len(seq) ELSE n)

StartsWith(s, pat) == Len(pat) <= Len(s) /\ SubSeq(s, 1, Len(pat)) = pat

\* str.replace(pat, rep): leftmost, non-overlapping occurrences of a non-empty pat
RECURSIVE replace(_, _, _)
replace(s, pat, rep) ==
    IF s = <<>> THEN <<>>
    ELSE IF StartsWith(s, pat)
         THEN rep \o replace(SubSeq(s, Len(pat) + 1, Len(s)), pat, rep)
         ELSE <<Head(s)>> \o replace(Tail(s), pat, rep)

\* `pat in s` for a non-empty pat
Contains(s, pat) == \E i \in 1..Len(s) : StartsWith(SubSeq(s, i, Len(s)), pat)

\* re.sub(r'\s+', ' ', s)
RECURSIVE collapse_ws(_)
collapse_ws(s) ==
    IF s = <<>> THEN <<>>
    ELSE IF IsSpace(Head(s)) THEN <<" ">> \o collapse_ws(lstrip(s))
         ELSE <<Head(s)>> \o collapse_ws(Tail(s))

\* re.sub(r'\s*\([^)]*\)', '', s) with open = "(" and close = ")", and
\* re.sub(r'\s*\[[^\]]*\]', '', s) with open = "[" and close = "]":
\* a match starts at an optional whitespace run followed by `open` and ends
\* at the first `close` after it.
RECURSIVE remove_group(_, _, _)
remove_group(s, open, close) ==
    IF s = <<>> THEN <<>>
    ELSE LET rest == lstrip(s)
             ends == {k \in 2..Len(rest) : rest[k] = close}
             first == CHOOSE k \in ends : \A j \in ends : k <= j
         IN  IF rest # <<>> /\ Head(rest) = open /\ ends # {}
             THEN remove_group(SubSeq(rest, first + 1, Len(rest)), open, close)
             ELSE <<Head(s)>> \o remove_group(Tail(s), open, close)

UpperLetters == <<"A", "B", "C", "D", "E", "F", "G", "H", "I", "J", "K", "L", "M",
                  "N", "O", "P", "Q", "R", "S", "T", "U", "V", "W", "X", "Y", "Z",
                  "U+0152">>
LowerLetters == <<"a", "b", "c", "d", "e", "f", "g", "h", "i", "j", "k", "l", "m",
                  "n", "o", "p", "q", "r", "s", "t", "u", "v", "w", "x", "y", "z",
                  "U+0153">>

\* str.lower()
lower(s) ==
    [i \in 1..Len(s) |->
        IF \E k \in 1..Len(UpperLetters) : UpperLetters[k] = s[i]
        THEN LowerLetters[CHOOSE k \in 1..Len(UpperLetters) : UpperLetters[k] = s[i]]
        ELSE s[i]]

----------------------------------------------------------------------------
(* validate_smiles *)

Digits == {"0", "1", "2", "3", "4", "5", "6", "7", "8", "9"}

valid_chars ==
    {LowerLetters[i] : i \in 1..26} \cup {UpperLetters[i] : i \in 1..26} \cup Digits
    \cup {"(", ")", "[", "]", "@", "+", "-", "=", "#", "/", "\\", "."}

\* validate_smiles on a str without the balance check
validate_str_no_balance(s) ==
    LET smiles == strip(s)
    IN  /\ s # <<>>
        /\ Len(smiles) >= 3
        /\ \A i \in 1..Len(smiles) : smiles[i] \in valid_chars

\* validate_smiles on a str
validate_str(s) ==
    LET smiles == strip(s)
        parens == count(smiles, "(") - count(smiles, ")")
        brackets == count(smiles, "[") - count(smiles, "]")
    IN  /\ s # <<>>
        /\ Len(smiles) >= 3
        /\ \A i \in 1..Len(smiles) : smiles[i] \in valid_chars
        /\ ~(parens # 0 \/ brackets # 0)

\* validate_smiles on any Python value: v.kind is "none" (None), "other" (a
\* value that is not a str, such as a number) or "str" (v.val is the string)
validate_smiles(v) == v.kind = "str" /\ validate_str(v.val)

----------------------------------------------------------------------------
(* clean_compound_name *)

Separators == <<<<"-">>, <<"_">>, <<"/">>, <<",">>, <<";">>>>

\* the keys of greek_replacements as the source file holds them: each is two
\* characters (the UTF-8 bytes of the Greek letter read in another encoding)
greek_replacements == <<
    <<<<"U+0152", "U+00B1">>, <<"a", "l", "p", "h", "a">>>>,
    <<<<"U+0152", "U+2264">>, <<"b", "e", "t", "a">>>>,
    <<<<"U+0152", "U+2265">>, <<"g", "a", "m", "m", "a">>>>,
    <<<<"U+0152", "U+00A5">>, <<"d", "e", "l", "t", "a">>>>,
    <<<<"U+0152", "U+00B5">>, <<"e", "p", "s", "i", "l", "o", "n">>>>,
    <<<<"U+0152", "U+2202">>, <<"z", "e", "t", "a">>>>,
    <<<<"U+0152", "U+2211">>, <<"e", "t", "a">>>>,
    <<<<"U+0152", "U+220F">>, <<"t", "h", "e", "t", "a">>>>,
    <<<<"U+0152", "U+222B">>, <<"k", "a", "p", "p", "a">>>>,
    <<<<"U+0152", "U+00AA">>, <<"l", "a", "m", "b", "d", "a">>>>,
    <<<<"U+0152", "U+00BA">>, <<"m", "u">>>>,
    <<<<"U+0152", "U+03A9">>, <<"n", "u">>>>,
    <<<<"U+0152", "U+00E6">>, <<"x", "i">>>>,
    <<<<"U+0153", "U+00C4">>, <<"p", "i">>>>,
    <<<<"U+0153", "U+00C5">>, <<"r", "h", "o">>>>,
    <<<<"U+0153", "U+00C9">>, <<"s", "i", "g", "m", "a">>>>,
    <<<<"U+0153", "U+00D1">>, <<"t", "a", "u">>>>,
    <<<<"U+0153", "U+00D6">>, <<"u", "p", "s", "i", "l", "o", "n">>>>,
    <<<<"U+0153", "U+00DC">>, <<"p", "h", "i">>>>,
    <<<<"U+0153", "U+00E1">>, <<"c", "h", "i">>>>,
    <<<<"U+0153", "U+00E0">>, <<"p", "s", "i">>>>,
    <<<<"U+0153", "U+00E2">>, <<"o", "m", "e", "g", "a">>>> >>

\* the loop over the separators: for each one present in `cleaned`, the
\* variant with it replaced by a space and the variant with it removed
RECURSIVE separator_variants(_, _, _)
separator_variants(cleaned, variants, seps) ==
    IF seps = <<>> THEN variants
    ELSE LET sep == Head(seps)
             spaced == strip(collapse_ws(replace(cleaned, sep, <<" ">>)))
             with_spaced == IF InSeq(spaced, variants) THEN variants
                            ELSE Append(variants, spaced)
             no_sep == strip(collapse_ws(replace(cleaned, sep, <<>>)))
             with_no_sep == IF InSeq(no_sep, with_spaced) THEN with_spaced
                            ELSE Append(with_spaced, no_sep)
         IN  separator_variants(cleaned,
                                IF Contains(cleaned, sep) THEN with_no_sep ELSE variants,
                                Tail(seps))

\* the loop over greek_replacements
RECURSIVE greek_replace(_, _)
greek_replace(s, table) ==
    IF table = <<>> THEN s
    ELSE greek_replace(replace(s, Head(table)[1], Head(table)[2]), Tail(table))

\* the variants as collected, with nothing removed
unique_variants_keep_all(variants, seen) == variants

\* the order-preserving, case-insensitive removal of duplicates and of ''
RECURSIVE unique_variants(_, _)
unique_variants(variants, seen) ==
    IF variants = <<>> THEN <<>>
    ELSE LET variant == Head(variants)
         IN  IF variant # <<>> /\ lower(variant) \notin seen
             THEN <<variant>> \o unique_variants(Tail(variants), seen \cup {lower(variant)})
             ELSE unique_variants(Tail(variants), seen)

\* unique_variants[:5]
VariantLimit == 5

\* a normalizer without the length check: a blank name is its own variant
clean_compound_name_keeps_blank(raw) == IF raw = <<>> THEN <<>> ELSE <<raw>>

\* a normalizer that returns every variant it has collected
clean_compound_name_unlimited(raw) ==
    LET name == strip(raw)
        cleaned == strip(collapse_ws(name))
        v1 == IF cleaned # <<>> THEN <<cleaned>> ELSE <<>>
        no_parens == strip(remove_group(cleaned, "(", ")"))
        v2 == IF no_parens # <<>> /\ no_parens # cleaned
              THEN Append(v1, no_parens) ELSE v1
        no_brackets == strip(remove_group(cleaned, "[", "]"))
        v3 == IF no_brackets # <<>> /\ no_brackets # cleaned
              THEN Append(v2, no_brackets) ELSE v2
        v4 == separator_variants(cleaned, v3, Separators)
        greek_variant == greek_replace(cleaned, greek_replacements)
        v5 == IF greek_variant # cleaned /\ ~InSeq(greek_variant, v4)
              THEN Append(v4, greek_variant) ELSE v4
    IN  IF raw = <<>> \/ Len(name) < 2 THEN <<>>
        ELSE unique_variants(v5, {})

clean_compound_name(raw) ==
    LET name == strip(raw)
        cleaned == strip(collapse_ws(name))
        v1 == IF cleaned # <<>> THEN <<cleaned>> ELSE <<>>
        no_parens == strip(remove_group(cleaned, "(", ")"))
        v2 == IF no_parens # <<>> /\ no_parens # cleaned
              THEN Append(v1, no_parens) ELSE v1
        no_brackets == strip(remove_group(cleaned, "[", "]"))
        v3 == IF no_brackets # <<>> /\ no_brackets # cleaned
              THEN Append(v2, no_brackets) ELSE v2
        v4 == separator_variants(cleaned, v3, Separators)
        greek_variant == greek_replace(cleaned, greek_replacements)
        v5 == IF greek_variant # cleaned /\ ~InSeq(greek_variant, v4)
              THEN Append(v4, greek_variant) ELSE v4
    IN  IF raw = <<>> \/ Len(name) < 2 THEN <<>>
        ELSE Take(unique_variants(v5, {}), VariantLimit)

----------------------------------------------------------------------------
(* extract_smiles_comprehensive: the response body of a property request is *)
(* the sequence of the values found under the SMILES keys, in the order the *)
(* code visits them; the first one the validator accepts is returned,       *)
(* stripped.                                                                *)

\* the first non-empty string, without asking the validator
RECURSIVE extract_no_validation(_)
extract_no_validation(data) ==
    IF data = <<>> THEN None
    ELSE IF Head(data).kind = "str" /\ Head(data).val # <<>>
         THEN strip(Head(data).val)
         ELSE extract_no_validation(Tail(data))

RECURSIVE extract_smiles_comprehensive(_)
extract_smiles_comprehensive(data) ==
    IF data = <<>> THEN None
    ELSE IF validate_smiles(Head(data)) THEN strip(Head(data).val)
         ELSE extract_smiles_comprehensive(Tail(data))

----------------------------------------------------------------------------
(* The lookup service, as a deterministic table.  A request is a kind and a *)
(* query:                                                                   *)
(*   name_prop  GET  name/{q}/property/CanonicalSMILES/json                 *)
(*   name_cids  GET  name/{q}/cids/json                                     *)
(*   cid_prop   GET  cid/{q}/property/CanonicalSMILES/json                  *)
(*   name_syn   GET  name/{q}/synonyms/json                                 *)
(*   post_prop  POST name/property/CanonicalSMILES/json with body q         *)
(*   wild_cids  GET  name/{q}/cids/json where q ends with "*"               *)
(* An empty answer stands for a response that is not 200 or holds no such   *)
(* field.                                                                   *)

StrVal(s) == [kind |-> "str", val |-> s]

N_ab == <<"a", "b">>
N_cd9 == <<"c", "d", " ", "(", "9", ")">>
N_cd == <<"c", "d">>
N_ef == <<"e", "f">>
N_ij == <<"i", "j">>
N_blank == <<" ">>
N_xy == <<"x", "y">>
N_curcumin == <<"c", "u", "r", "c", "u", "m", "i", "n">>
N_Curcumin95 == <<"C", "u", "r", "c", "u", "m", "i", "n", " ", "(", "9", "5", "%", ")">>
N_quercetin == <<"q", "u", "e", "r", "c", "e", "t", "i", "n">>
N_gh == <<"g", "h">>
N_klmn == <<"k", "-", "l", "_", "m", "/", "n">>

CCO == <<"C", "C", "O">>
CCN == <<"C", "C", "N">>
CCC == <<"C", "C", "C">>
CCS == <<"C", "C", "S">>
Unbalanced == <<"C", "(", "C">>

Backend(kind, q) ==
    CASE kind = "name_prop" ->
            (CASE q = N_ab -> <<StrVal(Unbalanced), StrVal(CCO)>>
               [] q = N_curcumin -> <<StrVal(CCN)>>
               [] q = N_quercetin -> <<StrVal(CCS)>>
               [] OTHER -> <<>>)
      [] kind = "name_cids" ->
            (CASE q = N_cd -> <<<<"1">>, <<"2">>, <<"3">>, <<"4">>>>
               [] StartsWith(q, <<"k">>) -> <<<<"9">>, <<"9">>, <<"9">>, <<"9">>>>
               [] OTHER -> <<>>)
      [] kind = "cid_prop" ->
            (CASE q = <<"1">> -> <<StrVal(Unbalanced)>>
               [] q = <<"3">> -> <<StrVal(<<" ">> \o CCN)>>
               [] q = <<"4">> -> <<StrVal(CCS)>>
               [] q = <<"7">> -> <<StrVal(CCC)>>
               [] OTHER -> <<>>)
      [] kind = "name_syn" ->
            (CASE q = N_ef -> <<N_xy, N_ab>>
               [] q = N_gh -> <<N_xy, N_cd, N_ij, N_ef, N_gh, N_ab>>
               [] StartsWith(q, <<"k">>) -> <<N_xy, N_xy, N_xy, N_xy, N_xy, N_xy>>
               [] OTHER -> <<>>)
      [] kind = "post_prop" ->
            (IF q = N_ef THEN <<StrVal(CCS)>> ELSE <<>>)
      [] kind = "wild_cids" ->
            (CASE q \in {N_ij \o <<"*">>, N_ab \o <<"*">>} -> <<<<"8">>, <<"7">>, <<"3">>>>
               [] StartsWith(q, <<"k">>) -> <<<<"9">>, <<"9">>, <<"9">>>>
               [] OTHER -> <<>>)
      [] OTHER -> <<>>

----------------------------------------------------------------------------
(* The cascades. *)

\* a different order, with the fuzzy strategy before the POST strategy
StrategiesFuzzyFourth ==
    <<"name_direct", "cid_based", "synonym_based", "fuzzy_search", "post_request">>

\* the strategies list of comprehensive_smiles_search, in its order
Strategies ==
    <<"name_direct", "cid_based", "synonym_based", "post_request", "fuzzy_search">>

\* the two strategies sync_comprehensive_search tries on each variant
SyncStrategies == <<"sync_name_direct", "sync_cid_based">>

StatKeys == {Strategies[i] : i \in 1..Len(Strategies)}
            \cup {SyncStrategies[i] : i \in 1..Len(SyncStrategies)}

\* the first request a strategy issues for a variant
primary_kind(S) ==
    CASE S \in {"name_direct", "sync_name_direct"} -> "name_prop"
      [] S \in {"cid_based", "sync_cid_based"} -> "name_cids"
      [] S = "synonym_based" -> "name_syn"
      [] S = "post_request" -> "post_prop"
      [] S = "fuzzy_search" -> "wild_cids"

\* the request a strategy issues for each item of the list its first request returned
sub_kind(S) == IF S = "synonym_based" THEN "name_prop" ELSE "cid_prop"

\* loops over the whole list the first request returned
sub_cap_whole_list(S) == 10

\* cids[:3], synonyms[:5], cids[:2] (fuzzy), cids[:2] (sync)
sub_cap(S) ==
    CASE S = "cid_based" -> 3
      [] S = "synonym_based" -> 5
      [] S = "fuzzy_search" -> 2
      [] S = "sync_cid_based" -> 2
      [] OTHER -> 0

\* an exception in a sub-request leaves the variant (the outer except) in the
\* CID strategies, and only the item (the inner except) in the synonym strategy
sub_error_leaves_variant(S) == S # "synonym_based"

Pair(S, v) == [strategy |-> S, v |-> v]

\* the (strategy, variant) pairs in the order comprehensive_smiles_search
\* visits them: each strategy function loops over all variants; the fuzzy
\* strategy returns at once when it is disabled
RECURSIVE strategy_major(_, _)
strategy_major(order, n) ==
    IF order = <<>> THEN <<>>
    ELSE [v \in 1..n |-> Pair(Head(order), v)] \o strategy_major(Tail(order), n)

RECURSIVE variant_major(_, _, _)
variant_major(order, v, n) ==
    IF v > n THEN <<>>
    ELSE [s \in 1..Len(order) |-> Pair(order[s], v)] \o variant_major(order, v + 1, n)

\* a fuzzy strategy that does not read enable_fuzzy_search
enabled_strategies_ignoring_switch(order, fuzzy) == order

enabled_strategies(order, fuzzy) ==
    SelectSeq(order, LAMBDA S : S # "fuzzy_search" \/ fuzzy)

\* the pairs in the different order
async_pairs_fuzzy_fourth(variants, fuzzy) ==
    strategy_major(enabled_strategies(StrategiesFuzzyFourth, fuzzy), Len(variants))

async_pairs(variants, fuzzy) ==
    strategy_major(enabled_strategies(Strategies, fuzzy), Len(variants))

\* the pairs in the order sync_comprehensive_search visits them: for each
\* variant, the direct lookup and then the CID lookup
sync_pairs(variants) == variant_major(SyncStrategies, 1, Len(variants))

----------------------------------------------------------------------------
(* The names a run can be given. *)

NameList == <<N_ab, N_cd9, N_ef, N_ij, N_blank>>

----------------------------------------------------------------------------
(* One cascade: a task of async_process_compounds or of the thread pool.    *)
(*   st      "waiting" (not admitted), "running" (between two requests),    *)
(*           "stat" (sync: strategy_stats read, not yet written back),      *)
(*           "progress" (sync: cascade returned, update_progress not run),  *)
(*           "done"                                                         *)
(*   pairs   the (strategy, variant) pairs the cascade's loops visit, in    *)
(*           order (clean_compound_name is pure: the loops are laid out     *)
(*           when the task is made)                                         *)
(*   pi, sub, items   position: the pair being tried, the item of the list  *)
(*           its first request returned, and that list                      *)
(*   log     history: the requests the cascade has issued                   *)
(*   prior, prior_failed   history: what `returned` and failed_compounds    *)
(*           held for the name when the cascade began                       *)

NewTask(name, pairs) ==
    [name |-> name, st |-> "waiting", pairs |-> pairs, pi |-> 1, sub |-> 0, items |-> <<>>,
     log |-> <<>>, smiles |-> None, method |-> "", tmp |-> 0,
     prior |-> None, prior_failed |-> FALSE]

\* a slot that counts a cascade only while it waits for a response
Running_requesting_only(t) == t.st = "running"

\* a slot that a cascade ending without an identifier never gives back
Running_kept_after_miss(t) ==
    t.st \in {"running", "stat", "progress"} \/ (t.st = "done" /\ t.smiles = <<>>)

\* the cascade holds a semaphore slot or a pool thread
Running(t) == t.st \in {"running", "stat", "progress"}

\* the request the cascade issues next
NextRequest(t) ==
    LET cur == t.pairs[t.pi]
        variant == cfg.variants[t.name][cur.v]
    IN  IF t.sub = 0
        THEN [strategy |-> cur.strategy, v |-> cur.v, kind |-> primary_kind(cur.strategy),
              q |-> IF cur.strategy = "fuzzy_search" THEN variant \o <<"*">> ELSE variant]
        ELSE [strategy |-> cur.strategy, v |-> cur.v, kind |-> sub_kind(cur.strategy),
              q |-> t.items[t.sub]]

IsPropertyRequest(req) == req.kind \in {"name_prop", "post_prop", "cid_prop"}

\* the identifier a response yields: an exception (err) or a list response yields none
Yield(req, err) ==
    IF IsPropertyRequest(req) /\ ~err
    THEN extract_smiles_comprehensive(Backend(req.kind, req.q))
    ELSE None

\* loops that a transport error leaves altogether: the cascade ends
AfterMiss_error_ends(t, req, err) ==
    LET list == IF err THEN <<>> ELSE Backend(req.kind, req.q)
        next_pair == [t EXCEPT !.pi = t.pi + 1, !.sub = 0, !.items = <<>>]
    IN  IF err THEN [t EXCEPT !.pi = Len(t.pairs) + 1, !.sub = 0, !.items = <<>>]
        ELSE IF ~IsPropertyRequest(req)
        THEN IF list # <<>>
             THEN [t EXCEPT !.sub = 1, !.items = Take(list, sub_cap(req.strategy))]
             ELSE next_pair
        ELSE IF t.sub = 0 \/ t.sub >= Len(t.items)
             THEN next_pair
             ELSE [t EXCEPT !.sub = t.sub + 1]

\* where the loops of a strategy function go after a request that yielded no
\* identifier: into the list just returned, to the next item, or to the next pair
AfterMiss(t, req, err) ==
    LET list == IF err THEN <<>> ELSE Backend(req.kind, req.q)
        next_pair == [t EXCEPT !.pi = t.pi + 1, !.sub = 0, !.items = <<>>]
    IN  IF ~IsPropertyRequest(req)
        THEN IF list # <<>>
             THEN [t EXCEPT !.sub = 1, !.items = Take(list, sub_cap(req.strategy))]
             ELSE next_pair
        ELSE IF t.sub = 0 \/ t.sub >= Len(t.items)
                  \/ (err /\ sub_error_leaves_variant(req.strategy))
             THEN next_pair
             ELSE [t EXCEPT !.sub = t.sub + 1]

\* a cascade that does not return on a direct-name hit
hit_returns_direct_goes_on(req, smiles) ==
    smiles # None /\ req.strategy # "name_direct"

\* `if smiles:` followed by the return of the strategy function and of the cascade
hit_returns(req, smiles) == smiles # None

Logged(t, req, err, smiles) ==
    [t EXCEPT !.log = Append(t.log, [strategy |-> req.strategy, v |-> req.v,
                                     kind |-> req.kind, q |-> req.q,
                                     error |-> err, accepted |-> smiles # None])]

----------------------------------------------------------------------------
(* Shared state of the engine. *)

Put(f, k, v) == [x \in DOMAIN f \cup {k} |-> IF x = k THEN v ELSE f[x]]

\* a cache that files the identifier under every name of the run
cache_store_any_name(c, name, smiles) ==
    [x \in DOMAIN c \cup {cfg.compounds[k] : k \in DOMAIN cfg.compounds} |-> smiles]

\* self.cache[compound_name] = smiles
cache_store(c, name, smiles) == Put(c, name, smiles)

\* history: the identifier a cascade returned first for the name
Returned(name, smiles) ==
    IF smiles # None /\ name \notin DOMAIN returned
    THEN Put(returned, name, smiles) ELSE returned

\* a caller in which a cascade that ends without an identifier raises and
\* its outcome is never collected
update_progress_failure_raises(i, t) ==
    IF t.smiles = None
    THEN /\ tasks' = [tasks EXCEPT ![i] = [t EXCEPT !.st = "raised"]]
         /\ UNCHANGED <<processed_count, success_count, results>>
    ELSE /\ processed_count' = processed_count + 1
         /\ success_count' = success_count + 1
         /\ results' = Put(results, t.name, t.smiles)
         /\ tasks' = [tasks EXCEPT ![i] = [t EXCEPT !.st = "done"]]

\* an update_progress that counts a success in success_count alone
update_progress_success_apart(i, t) ==
    /\ processed_count' = IF t.smiles # None THEN processed_count ELSE processed_count + 1
    /\ success_count' = IF t.smiles # None THEN success_count + 1 ELSE success_count
    /\ results' = Put(results, t.name, t.smiles)
    /\ tasks' = [tasks EXCEPT ![i] = [t EXCEPT !.st = "done"]]

\* a caller that collects only the identifiers found
update_progress_found_only(i, t) ==
    /\ processed_count' = processed_count + 1
    /\ success_count' = IF t.smiles # None THEN success_count + 1 ELSE success_count
    /\ results' = IF t.smiles # None THEN Put(results, t.name, t.smiles) ELSE results
    /\ tasks' = [tasks EXCEPT ![i] = [t EXCEPT !.st = "done"]]

\* update_progress (the body of `with self.lock`), then the caller's
\* results[name] = smiles
update_progress(i, t) ==
    /\ processed_count' = processed_count + 1
    /\ success_count' = IF t.smiles # None THEN success_count + 1 ELSE success_count
    /\ results' = Put(results, t.name, t.smiles)
    /\ tasks' = [tasks EXCEPT ![i] = [t EXCEPT !.st = "done"]]

\* the end of a cascade: cooperative tasks run update_progress without
\* suspending; a pool thread can be preempted before it
Return(i, t) ==
    IF phase = "async"
    THEN /\ update_progress(i, t)
         /\ returned' = Returned(t.name, t.smiles)
    ELSE /\ tasks' = [tasks EXCEPT ![i] = [t EXCEPT !.st = "progress"]]
         /\ returned' = Returned(t.name, t.smiles)
         /\ UNCHANGED <<processed_count, success_count, results>>

----------------------------------------------------------------------------
(* Inputs of a run. *)

\* the input lists: up to MaxNames names, repeats allowed (cooperative tasks
\* start in any order, so lists are drawn sorted)
InputLists ==
    UNION {{[k \in 1..n |-> NameList[f[k]]] :
                f \in {g \in [1..n -> 1..Len(NameList)] :
                          \A a, b \in 1..n : a < b => g[a] <= g[b]}} :
           n \in 1..MaxNames}

\* valid_compounds.drop_duplicates()
RECURSIVE drop_duplicates(_)
drop_duplicates(rows) ==
    IF rows = <<>> THEN <<>>
    ELSE LET front == drop_duplicates(SubSeq(rows, 1, Len(rows) - 1))
             last == rows[Len(rows)]
         IN  IF InSeq(last, front) THEN front ELSE Append(front, last)

HasDuplicates(rows) == drop_duplicates(rows) # rows

\* process_dataset on an engine built by process_file_comprehensive, which
\* resolves the distinct names of its dataset, and quick_smiles_lookup, which
\* builds its engine with use_async=True and the default
\* enable_fuzzy_search=True and hands its list over as it is (a list without
\* repeats runs there as it does in process_dataset)
\* (variants: clean_compound_name of each name of the run)
VariantsOf(rows) == [n \in {rows[i] : i \in 1..Len(rows)} |-> clean_compound_name(n)]

DatasetConfig(rows, a, w, z) ==
    [entry |-> "process_dataset", rows |-> rows, compounds |-> drop_duplicates(rows),
     variants |-> VariantsOf(rows),
     use_async |-> a, max_workers |-> w, enable_fuzzy_search |-> z,
     max_errors |-> MaxErrors]

\* (the worker pool never reads enable_fuzzy_search: it keeps its default
\* there; max_workers is 1, one cascade at a time, or MaxWorkers)
Configs ==
    {DatasetConfig(rows, TRUE, w, z) :
        rows \in {r \in InputLists : ~HasDuplicates(r)},
        w \in {1, MaxWorkers}, z \in BOOLEAN}
    \cup
    {DatasetConfig(rows, FALSE, w, TRUE) :
        rows \in {r \in InputLists : ~HasDuplicates(r)}, w \in {1, MaxWorkers}}
    \cup
    {[entry |-> "quick_smiles_lookup", rows |-> rows, compounds |-> rows,
      variants |-> VariantsOf(rows),
      use_async |-> TRUE, max_workers |-> w, enable_fuzzy_search |-> TRUE,
      max_errors |-> MaxErrors] :
        rows \in {r \in InputLists : HasDuplicates(r)}, w \in {1, MaxWorkers}}

EmptyDict == [x \in {} |-> None]

ZeroStats == [k \in StatKeys |-> 0]

\* the cascades of async_process_compounds (use_async) or of
\* sync_process_compounds on the compounds of the run
TasksFor(c, use_async) ==
    [i \in 1..Len(c.compounds) |->
        NewTask(c.compounds[i],
                IF use_async
                THEN async_pairs(c.variants[c.compounds[i]], c.enable_fuzzy_search)
                ELSE sync_pairs(c.variants[c.compounds[i]]))]

----------------------------------------------------------------------------
(* The engine. *)

\* ComprehensiveSMILESRetriever.__init__
Init ==
    /\ cfg \in Configs
    /\ backend_errors = 0
    /\ phase = "idle"
    /\ fellback = FALSE
    /\ tasks = <<>>
    /\ cache = EmptyDict
    /\ failed_compounds = {}
    /\ processed_count = 0
    /\ success_count = 0
    /\ strategy_stats = ZeroStats
    /\ results = EmptyDict
    /\ returned = EmptyDict
    /\ at_fallback = [cached |-> {}, failed |-> {}]
    /\ arg = None
    /\ ret = None

\* a process_dataset that resets the counters but clears neither the cache
\* nor failed_compounds
StartRun_counters_only ==
    /\ phase = "idle"
    /\ phase' = IF cfg.use_async THEN "async" ELSE "sync"
    /\ tasks' = TasksFor(cfg, cfg.use_async)
    /\ processed_count' = 0
    /\ success_count' = 0
    /\ strategy_stats' = ZeroStats
    /\ results' = EmptyDict
    /\ UNCHANGED <<cfg, backend_errors, fellback, cache, failed_compounds, returned,
                   at_fallback, arg, ret>>

\* process_dataset up to the call of the primary mode ("Reset counters"), or
\* quick_smiles_lookup up to run_until_complete
StartRun ==
    /\ phase = "idle"
    /\ phase' = IF cfg.use_async THEN "async" ELSE "sync"
    /\ tasks' = TasksFor(cfg, cfg.use_async)
    /\ processed_count' = 0
    /\ success_count' = 0
    /\ cache' = EmptyDict
    /\ failed_compounds' = {}
    /\ strategy_stats' = ZeroStats
    /\ results' = EmptyDict
    /\ UNCHANGED <<cfg, backend_errors, fellback, returned, at_fallback, arg, ret>>

\* a cascade that does not consult failed_compounds when it begins
permanently_failed_never(name) == FALSE

\* `if compound_name in self.failed_compounds`
permanently_failed(name) == name \in failed_compounds

\* A cascade begins: `async with semaphore` or a pool thread taking the next
\* work item, then the cache and failed_compounds checks.  A name without
\* variants runs through every strategy without issuing a request.
Admit(i) ==
    /\ phase \in {"async", "sync"}
    /\ i \in DOMAIN tasks
    /\ tasks[i].st = "waiting"
    /\ Cardinality({j \in DOMAIN tasks : Running(tasks[j])}) < cfg.max_workers
    /\ phase = "sync" => \A j \in 1..(i - 1) : tasks[j].st # "waiting"
    /\ LET name == tasks[i].name
           t == [tasks[i] EXCEPT
                    !.prior = IF name \in DOMAIN returned THEN returned[name] ELSE None,
                    !.prior_failed = name \in failed_compounds]
       IN  IF name \in DOMAIN cache
           THEN /\ Return(i, [t EXCEPT !.smiles = cache[name], !.method = "cached"])
                /\ UNCHANGED failed_compounds
           ELSE IF permanently_failed(name)
           THEN /\ Return(i, [t EXCEPT !.method = "permanently_failed"])
                /\ UNCHANGED failed_compounds
           ELSE IF t.pairs = <<>>
           THEN /\ failed_compounds' = failed_compounds \cup {name}
                /\ Return(i, [t EXCEPT !.method = "all_failed"])
           ELSE /\ tasks' = [tasks EXCEPT ![i] = [t EXCEPT !.st = "running"]]
                /\ UNCHANGED <<failed_compounds, processed_count, success_count,
                               results, returned>>
    /\ UNCHANGED <<cfg, backend_errors, phase, fellback, cache, strategy_stats,
                   at_fallback, arg, ret>>

\* A cascade issues its next request and acts on the response: a hit ends the
\* cascade (the strategy counts itself, the name is cached), a miss moves on,
\* and the last miss registers the name as failed.
Request(i) ==
    /\ phase \in {"async", "sync"}
    /\ i \in DOMAIN tasks
    /\ tasks[i].st = "running"
    /\ \E err \in BOOLEAN :
        /\ err => backend_errors < cfg.max_errors
        /\ backend_errors' = IF err THEN backend_errors + 1 ELSE backend_errors
        /\ \E req \in {NextRequest(tasks[i])} :
           \E smiles \in {Yield(req, err)} :
           \E t \in {Logged(tasks[i], req, err, smiles)} :
           \E after \in {AfterMiss(t, req, err)} :
               IF hit_returns(req, smiles)
               THEN /\ cache' = cache_store(cache, t.name, smiles)
                    /\ UNCHANGED failed_compounds
                    /\ IF phase = "async"
                       THEN /\ strategy_stats' =
                                 [strategy_stats EXCEPT ![req.strategy] = @ + 1]
                            /\ Return(i, [t EXCEPT !.smiles = smiles,
                                                   !.method = req.strategy])
                       ELSE /\ tasks' = [tasks EXCEPT ![i] =
                                   [t EXCEPT !.st = "stat", !.smiles = smiles,
                                             !.method = req.strategy,
                                             !.tmp = strategy_stats[req.strategy]]]
                            /\ UNCHANGED <<strategy_stats, processed_count,
                                           success_count, results, returned>>
               ELSE IF after.pi > Len(t.pairs)
               THEN /\ failed_compounds' = failed_compounds \cup {t.name}
                    /\ Return(i, [after EXCEPT !.method = "all_failed"])
                    /\ UNCHANGED <<cache, strategy_stats>>
               ELSE /\ tasks' = [tasks EXCEPT ![i] = after]
                    /\ UNCHANGED <<cache, failed_compounds, strategy_stats,
                                   processed_count, success_count, results, returned>>
    /\ UNCHANGED <<cfg, phase, fellback, at_fallback, arg, ret>>

\* sync: the write half of `self.strategy_stats[...] += 1`, which runs
\* outside the lock, and the return of sync_comprehensive_search
StatWrite(i) ==
    /\ phase = "sync"
    /\ i \in DOMAIN tasks
    /\ tasks[i].st = "stat"
    /\ strategy_stats' = [strategy_stats EXCEPT ![tasks[i].method] = tasks[i].tmp + 1]
    /\ Return(i, tasks[i])
    /\ UNCHANGED <<cfg, backend_errors, phase, fellback, cache, failed_compounds,
                   at_fallback, arg, ret>>

\* sync: update_progress of process_compound, and the collection of the future
Progress(i) ==
    /\ phase = "sync"
    /\ i \in DOMAIN tasks
    /\ tasks[i].st = "progress"
    /\ update_progress(i, tasks[i])
    /\ UNCHANGED <<cfg, backend_errors, phase, fellback, cache, failed_compounds,
                   strategy_stats, returned, at_fallback, arg, ret>>

\* an except branch that empties the cache and failed_compounds before it
\* calls sync_process_compounds
AsyncFail_starts_cold ==
    /\ phase = "async"
    /\ ~fellback
    /\ phase' = "sync"
    /\ fellback' = TRUE
    /\ tasks' = TasksFor(cfg, FALSE)
    /\ results' = EmptyDict
    /\ cache' = EmptyDict
    /\ failed_compounds' = {}
    /\ at_fallback' = [cached |-> DOMAIN cache, failed |-> failed_compounds]
    /\ UNCHANGED <<cfg, backend_errors, processed_count,
                   success_count, strategy_stats, returned, arg, ret>>

\* The primary mode raises while cooperative: the except branch calls
\* sync_process_compounds on the whole list.  The event loop is not run
\* again, so the cooperative cascades stop where they are.
AsyncFail ==
    /\ phase = "async"
    /\ ~fellback
    /\ phase' = "sync"
    /\ fellback' = TRUE
    /\ tasks' = TasksFor(cfg, FALSE)
    /\ results' = EmptyDict
    /\ at_fallback' = [cached |-> DOMAIN cache, failed |-> failed_compounds]
    /\ UNCHANGED <<cfg, backend_errors, cache, failed_compounds, processed_count,
                   success_count, strategy_stats, returned, arg, ret>>

\* *_process_compounds returns its results
Finish ==
    /\ phase \in {"async", "sync"}
    /\ \A i \in DOMAIN tasks : tasks[i].st = "done"
    /\ phase' = "done"
    /\ UNCHANGED <<cfg, backend_errors, fellback, tasks, cache, failed_compounds,
                   processed_count, success_count, strategy_stats, results, returned,
                   at_fallback, arg, ret>>

Next ==
    \/ StartRun
    \/ \E i \in DOMAIN tasks : Admit(i)
    \/ \E i \in DOMAIN tasks : Request(i)
    \/ \E i \in DOMAIN tasks : StatWrite(i)
    \/ \E i \in DOMAIN tasks : Progress(i)
    \/ AsyncFail
    \/ Finish

Spec == Init /\ [][Next]_vars

----------------------------------------------------------------------------
(* Properties of the cascades and of the controller. *)

Started(t) == t.st # "waiting"

\* C1: once a cascade has returned an identifier for a name, every cascade
\* that begins later for the same name returns that same identifier and
\* issues no backend request.
C1_CacheIdempotence ==
    \A i \in DOMAIN tasks :
        (Started(tasks[i]) /\ tasks[i].prior # None)
            => (tasks[i].log = <<>> /\ tasks[i].smiles = tasks[i].prior)

\* C2: once a name is in failed_compounds, every cascade that begins later
\* for that name returns no identifier and issues no backend request.
C2_FailureMemoization ==
    \A i \in DOMAIN tasks :
        (Started(tasks[i]) /\ tasks[i].prior_failed)
            => (tasks[i].log = <<>> /\ tasks[i].smiles = None)

\* C3: in a cascade, a request that yields an accepted identifier is the
\* last request the cascade issues: the cascade has ended with that
\* identifier, attributed to that strategy, and the name is in the cache.  A
\* direct-name hit on the first variant is therefore the only request.
C3_ShortCircuit ==
    \A i \in DOMAIN tasks :
        \A k \in 1..Len(tasks[i].log) :
            tasks[i].log[k].accepted
                => /\ k = Len(tasks[i].log)
                   /\ tasks[i].st \in {"stat", "progress", "done"}
                   /\ tasks[i].smiles # None
                   /\ tasks[i].method = tasks[i].log[k].strategy
                   /\ tasks[i].name \in DOMAIN cache

\* C3 witness: a finished cascade whose single request, the direct-name
\* lookup of the first variant, was accepted.
C3_Witness ==
    \E i \in DOMAIN tasks :
        /\ tasks[i].st = "done"
        /\ Len(tasks[i].log) = 1
        /\ tasks[i].log[1].accepted
        /\ tasks[i].log[1].strategy = "name_direct"
        /\ tasks[i].log[1].v = 1

\* the cascade of one name run alone against the table, from its first
\* request to its end: the identifier it returns
RECURSIVE RunCascade(_)
RunCascade(t) ==
    IF t.pi > Len(t.pairs) THEN None
    ELSE LET req == NextRequest(t)
             smiles == Yield(req, FALSE)
         IN  IF hit_returns(req, smiles) THEN smiles
             ELSE RunCascade(AfterMiss(t, req, FALSE))

\* the identifier the mode the run did not use yields for a name
OtherModeResult(name) ==
    RunCascade(NewTask(name,
                       IF cfg.use_async
                       THEN sync_pairs(cfg.variants[name])
                       ELSE async_pairs(cfg.variants[name], cfg.enable_fuzzy_search)))

\* C4: for a backend that answers from its table (no transport error), the
\* mapping a completed run returns in one mode is the mapping the other mode
\* returns for the same names from an empty cache and FailureRegistry.
C4_ModeEquivalence ==
    (phase = "done" /\ ~fellback /\ backend_errors = 0)
        => \A n \in DOMAIN results : results[n] = OtherModeResult(n)

\* C5: after the fallback, the worker pool is given only the names that were
\* unresolved when it began: a name that was then in the cache or in
\* failed_compounds gets no worker-pool cascade.
C5_FallbackOnlyUnresolved ==
    fellback
        => \A i \in DOMAIN tasks :
              tasks[i].name \in (at_fallback.cached \cup at_fallback.failed)
                  => ~Started(tasks[i])

\* C6: at the end of a run of process_dataset, succeeded + failed (+ invalid,
\* which the engine counts among the failed) is the number of input names,
\* processed_count is that number and success_count does not exceed it.
C6_StatisticsTotals ==
    (phase = "done" /\ cfg.entry = "process_dataset")
        => /\ success_count + Cardinality(failed_compounds) = Len(cfg.compounds)
           /\ processed_count = Len(cfg.compounds)
           /\ success_count <= Len(cfg.compounds)

RECURSIVE SumOver(_, _)
SumOver(f, keys) ==
    IF keys = {} THEN 0
    ELSE LET k == CHOOSE x \in keys : TRUE IN f[k] + SumOver(f, keys \ {k})

\* C7: at the end of a run, the per-strategy success counts sum to
\* success_count.
C7_PerStrategySum ==
    phase = "done" => SumOver(strategy_stats, StatKeys) = success_count

\* the priority order of the strategies as the claim gives it
Rank(S) ==
    CASE S \in {"name_direct", "sync_name_direct"} -> 1
      [] S \in {"cid_based", "sync_cid_based"} -> 2
      [] S = "synonym_based" -> 3
      [] S = "post_request" -> 4
      [] S = "fuzzy_search" -> 5

\* C8: the requests of a cooperative cascade follow the priority order
\* direct-name, identifier-code, synonym, free-text, fuzzy; in either mode the
\* strategies tried on one variant follow it; and a fuzzy-wildcard request is
\* issued only after each of the four other strategies has been tried for
\* the name and none has yielded an identifier.
C8_StrategyPriority ==
    \A i \in DOMAIN tasks :
        LET log == tasks[i].log
        IN  \A k \in 1..Len(log) :
              /\ \A j \in 1..(k - 1) :
                    (phase = "async" \/ log[j].v = log[k].v)
                        => Rank(log[j].strategy) <= Rank(log[k].strategy)
              /\ log[k].strategy = "fuzzy_search"
                    => /\ \A r \in 1..4 :
                             \E j \in 1..(k - 1) : Rank(log[j].strategy) = r
                       /\ \A j \in 1..(k - 1) : ~log[j].accepted

\* C8 witness: a cascade that has issued a fuzzy-wildcard request.
C8_Witness ==
    \E i \in DOMAIN tasks :
        \E k \in 1..Len(tasks[i].log) : tasks[i].log[k].kind = "wild_cids"

\* C9: in both modes a cascade is strategy-major, variant-minor: its
\* requests never go back to an earlier strategy, and within one strategy
\* never to an earlier variant.
C9_StrategyMajor ==
    \A i \in DOMAIN tasks :
        LET log == tasks[i].log
        IN  \A k \in 1..Len(log) :
              \A j \in 1..(k - 1) :
                 /\ Rank(log[j].strategy) <= Rank(log[k].strategy)
                 /\ log[j].strategy = log[k].strategy => log[j].v <= log[k].v

\* a name that is empty or whitespace-only
IsBlank(name) == \A k \in 1..Len(name) : IsSpace(name[k])

\* C14: for a name that is empty or whitespace-only, no backend request of
\* any strategy is issued, in either execution mode.
C14_NoTrafficForInvalid ==
    \A i \in DOMAIN tasks : IsBlank(tasks[i].name) => tasks[i].log = <<>>

\* C14 witness: the cascade of a blank name has ended in the worker pool,
\* after a cooperative pass.
C14_Witness ==
    /\ fellback
    /\ \E i \in DOMAIN tasks : IsBlank(tasks[i].name) /\ tasks[i].st = "done"

\* C15: a name that is empty or whitespace-only ends with the status
\* Invalid, which is not the status of an exhausted cascade, and is not
\* recorded in failed_compounds.
C15_InvalidDistinct ==
    \A i \in DOMAIN tasks :
        (IsBlank(tasks[i].name) /\ tasks[i].st \in {"progress", "done"})
            => /\ tasks[i].method = "invalid"
               /\ tasks[i].name \notin failed_compounds

InProgress(t) == t.st \notin {"waiting", "done"}

\* C16: in every state of a run, in either mode, the number of cascades in
\* progress (admitted and not yet finished) is at most max_workers.
C16_BoundedParallelism ==
    phase \in {"async", "sync"}
        => Cardinality({i \in DOMAIN tasks : InProgress(tasks[i])}) <= cfg.max_workers

\* C16 witness: with the largest max_workers, max_workers cascades are in progress.
C16_Witness ==
    /\ phase \in {"async", "sync"}
    /\ cfg.max_workers = MaxWorkers
    /\ Cardinality({i \in DOMAIN tasks : InProgress(tasks[i])}) = cfg.max_workers

\* task i issues a request in this step and the call fails: a transport
\* error, or a response that holds no accepted identifier
FailedCall(i) ==
    /\ i \in DOMAIN tasks'
    /\ tasks[i].st = "running"
    /\ Len(tasks'[i].log) = Len(tasks[i].log) + 1
    /\ ~tasks'[i].log[Len(tasks'[i].log)].accepted

\* after the failed call the cascade is at the same pair or at the next one
Continues(i) ==
    /\ tasks'[i].st = "running"
    /\ tasks'[i].pi \in {tasks[i].pi, tasks[i].pi + 1}
    /\ tasks'[i].pi <= Len(tasks[i].pairs)

\* C18 as stated: a failed backend call changes neither cache nor
\* failed_compounds and does not abort the cascade, which continues with the
\* next pair in order when there is one.
C18_FailedCallAsStated ==
    [][\A i \in DOMAIN tasks :
          FailedCall(i)
              => /\ cache' = cache
                 /\ failed_compounds' = failed_compounds
                 /\ tasks[i].pi < Len(tasks[i].pairs) => Continues(i)]_vars

\* C18 amended: a failed backend call does not change cache and does not
\* abort the cascade: the cascade continues in order, at the same pair or at
\* the next one, with failed_compounds unchanged; only when the call was the
\* last one of the last pair does the cascade end, without an identifier,
\* and then it adds the name to failed_compounds.
C18_FailedCallIsMiss ==
    [][\A i \in DOMAIN tasks :
          FailedCall(i)
              => /\ cache' = cache
                 /\ \/ /\ Continues(i)
                       /\ failed_compounds' = failed_compounds
                    \/ /\ tasks[i].pi = Len(tasks[i].pairs)
                       /\ tasks'[i].st \in {"progress", "done"}
                       /\ tasks'[i].smiles = None
                       /\ failed_compounds' = failed_compounds \cup {tasks[i].name}]_vars

\* C18 witness: a cascade has issued a further request after one of its
\* calls raised a transport error.
C18_Witness ==
    \E i \in DOMAIN tasks :
        \E k \in 1..Len(tasks[i].log) : tasks[i].log[k].error /\ k < Len(tasks[i].log)

----------------------------------------------------------------------------
(* validate_smiles applied to one value. *)

Aspirin == <<"C", "C", "(", "=", "O", ")", "O", "c", "1", "c", "c", "c", "c", "c",
             "1", "C", "(", "=", "O", ")", "O">>

ValidateAlphabet == {"C", "(", ")", "[", "]", " ", "%"}

StringsUpTo(n) == UNION {[1..k -> ValidateAlphabet] : k \in 0..n}

ValidateInputs ==
    {[kind |-> "str", val |-> s] : s \in StringsUpTo(MaxSmilesLen) \cup {Aspirin}}
    \cup {[kind |-> "none", val |-> <<>>], [kind |-> "other", val |-> <<>>]}

EngineUnused ==
    /\ cfg = [entry |-> "none"]
    /\ backend_errors = 0
    /\ phase = "unused"
    /\ fellback = FALSE
    /\ tasks = <<>>
    /\ cache = EmptyDict
    /\ failed_compounds = {}
    /\ processed_count = 0
    /\ success_count = 0
    /\ strategy_stats = ZeroStats
    /\ results = EmptyDict
    /\ returned = EmptyDict
    /\ at_fallback = [cached |-> {}, failed |-> {}]

InitValidate ==
    /\ EngineUnused
    /\ arg \in ValidateInputs
    /\ ret = [done |-> FALSE, value |-> FALSE]

Validate ==
    /\ ~ret.done
    /\ ret' = [done |-> TRUE, value |-> validate_smiles(arg)]
    /\ UNCHANGED <<arg, engine_vars>>

NextValidate == Validate

SpecValidate == InitValidate /\ [][NextValidate]_vars

----------------------------------------------------------------------------
(* Properties of validate_smiles. *)

\* the notation alphabet as the claim gives it: letters, digits, ()[]@+-=#/\.
ClaimAlphabet ==
    {"a", "b", "c", "d", "e", "f", "g", "h", "i", "j", "k", "l", "m", "n", "o", "p",
     "q", "r", "s", "t", "u", "v", "w", "x", "y", "z", "A", "B", "C", "D", "E", "F",
     "G", "H", "I", "J", "K", "L", "M", "N", "O", "P", "Q", "R", "S", "T", "U", "V",
     "W", "X", "Y", "Z", "0", "1", "2", "3", "4", "5", "6", "7", "8", "9",
     "(", ")", "[", "]", "@", "+", "-", "=", "#", "/", "\\", "."}

Occurrences(s, c) == Len(SelectSeq(s, LAMBDA x : x = c))

Unbalanced_(s) ==
    \/ Occurrences(s, "(") # Occurrences(s, ")")
    \/ Occurrences(s, "[") # Occurrences(s, "]")

\* C10 as stated: validate_smiles rejects every value that is absent, empty
\* or shorter than 3 characters, every string holding a character outside
\* the alphabet, and every string with unbalanced parentheses or brackets;
\* it accepts CC(=O)Oc1ccccc1C(=O)O.
C10_ValidatorAsStated ==
    ret.done
        => /\ (\/ arg.kind # "str"
               \/ Len(arg.val) < 3
               \/ \E k \in 1..Len(arg.val) : arg.val[k] \notin ClaimAlphabet
               \/ Unbalanced_(arg.val)) => ~ret.value
           /\ arg = StrVal(Aspirin) => ret.value

\* C10 amended: the rules apply to the value with its leading and trailing
\* whitespace removed: validate_smiles rejects every value that is absent or
\* not a string, every string that is empty or, once trimmed, shorter than 3
\* characters or holding a character outside the alphabet, and every string
\* with unbalanced parentheses or brackets; it accepts
\* CC(=O)Oc1ccccc1C(=O)O.
C10_Validator ==
    ret.done
        => /\ (\/ arg.kind # "str"
               \/ Len(strip(arg.val)) < 3
               \/ \E k \in 1..Len(strip(arg.val)) : strip(arg.val)[k] \notin ClaimAlphabet
               \/ Unbalanced_(arg.val)) => ~ret.value
           /\ arg = StrVal(Aspirin) => ret.value

\* C10 witness: a string of three or more alphabet characters whose
\* parentheses do not balance has been rejected.
C10_Witness ==
    /\ ret.done
    /\ arg.kind = "str"
    /\ Len(arg.val) >= 3
    /\ \A k \in 1..Len(arg.val) : arg.val[k] \in ClaimAlphabet
    /\ Occurrences(arg.val, "(") # Occurrences(arg.val, ")")
    /\ ~ret.value

----------------------------------------------------------------------------
(* clean_compound_name applied to one raw name. *)

N_separators == <<" ", "a", "-", "_", "/", "b">>
N_spaced == <<"a", " ", "\t", " ", "b", "\n">>

NormalizeAlphabet == {"a", "A", " ", "\t", "-", "(", ")"}

\* the raw names: every string over the alphabet up to MaxRawLen, a name with
\* three separators and a name with whitespace runs
NormalizeInputs ==
    UNION {[1..n -> NormalizeAlphabet] : n \in 0..MaxRawLen}
    \cup {N_separators, N_spaced}

InitNormalize ==
    /\ EngineUnused
    /\ arg \in {[kind |-> "name", val |-> s] : s \in NormalizeInputs}
    /\ ret = [done |-> FALSE, value |-> <<>>]

Normalize ==
    /\ arg.kind = "name"
    /\ ~ret.done
    /\ ret' = [done |-> TRUE, value |-> clean_compound_name(arg.val)]
    /\ UNCHANGED <<engine_vars, arg>>

NextNormalize == Normalize

SpecNormalize == InitNormalize /\ [][NextNormalize]_vars

----------------------------------------------------------------------------
(* Properties of clean_compound_name. *)

\* the maximal runs of non-whitespace characters of s, in order
RECURSIVE Words(_)
Words(s) ==
    IF s = <<>> THEN <<>>
    ELSE IF IsSpace(Head(s)) THEN Words(Tail(s))
    ELSE LET stops == {k \in 1..Len(s) : IsSpace(s[k])}
             n == IF stops = {} THEN Len(s) + 1
                  ELSE CHOOSE k \in stops : \A j \in stops : k <= j
         IN  <<SubSeq(s, 1, n - 1)>> \o Words(SubSeq(s, n, Len(s)))

RECURSIVE TotalLen(_)
TotalLen(ws) == IF ws = <<>> THEN 0 ELSE Len(Head(ws)) + TotalLen(Tail(ws))

\* x is raw trimmed, with each internal whitespace run collapsed to one space
IsLeastTransformed(x, raw) ==
    /\ Words(x) = Words(raw)
    /\ Len(x) = TotalLen(Words(raw)) + Len(Words(raw)) - 1
    /\ \A k \in 1..Len(x) : IsSpace(x[k]) => x[k] = " "

SameLetter(a, b) ==
    a = b \/ \E k \in 1..Len(UpperLetters) : {a, b} = {UpperLetters[k], LowerLetters[k]}

EqualIgnoringCase(x, y) ==
    Len(x) = Len(y) /\ \A k \in 1..Len(x) : SameLetter(x[k], y[k])

\* C11: for every raw name, clean_compound_name returns at most 5 variants,
\* none empty, no two equal when compared case-insensitively, and the first
\* one, when there is one, is the raw name trimmed with its internal
\* whitespace runs collapsed to one space.
C11_NormalizerShape ==
    (arg.kind = "name" /\ ret.done)
        => LET v == ret.value
           IN  /\ Len(v) <= 5
               /\ \A i \in 1..Len(v) : v[i] # <<>>
               /\ \A i, j \in 1..Len(v) : i < j => ~EqualIgnoringCase(v[i], v[j])
               /\ v # <<>> => IsLeastTransformed(v[1], arg.val)

\* C11 witness: a name with surrounding whitespace and more than 5 collected
\* variants has been cut to 5, the first being the trimmed name.
C11_Witness ==
    /\ arg.kind = "name"
    /\ ret.done
    /\ Len(ret.value) = 5
    /\ ret.value[1] # arg.val

----------------------------------------------------------------------------
(* clean_compound_name as a method of the engine: called with the engine in *)
(* some state, it gives a value, leaves the engine in a state and issues    *)
(* requests.                                                                *)

EngineObject ==
    [cache |-> cache, failed_compounds |-> failed_compounds,
     processed_count |-> processed_count, success_count |-> success_count,
     strategy_stats |-> strategy_stats]

\* a method that counts its calls in processed_count
clean_compound_name_counting(obj, raw) ==
    [value |-> clean_compound_name(raw),
     obj |-> [obj EXCEPT !.processed_count = @ + 1],
     requests |-> <<>>]

\* the method reads only its argument, assigns no attribute and calls no session
clean_compound_name_method(obj, raw) ==
    [value |-> clean_compound_name(raw), obj |-> obj, requests |-> <<>>]

PurityNames == {N_cd9, N_blank}

\* the engine states the method is called in: between the cascades of a run
InitPurity ==
    /\ cfg = [entry |-> "none"]
    /\ backend_errors = 0
    /\ phase = "unused"
    /\ fellback = FALSE
    /\ tasks = <<>>
    /\ cache = EmptyDict
    /\ failed_compounds = {}
    /\ processed_count = 0
    /\ success_count = 0
    /\ strategy_stats = ZeroStats
    /\ results = EmptyDict
    /\ returned = EmptyDict
    /\ at_fallback = [cached |-> {}, failed |-> {}]
    /\ arg = [kind |-> "name", val |-> <<>>]
    /\ ret = [done |-> FALSE, value |-> <<>>, requests |-> <<>>, repeat |-> FALSE,
              first |-> EmptyDict]

\* a call of the method; ret.first keeps, for each raw name, the value its
\* first call returned and the number of cascades that had ended by then
CallNormalizer ==
    \E raw \in PurityNames :
        LET out == clean_compound_name_method(EngineObject, raw)
        IN  /\ arg' = [kind |-> "name", val |-> raw]
            /\ ret' = [done |-> TRUE, value |-> out.value, requests |-> out.requests,
                       repeat |-> raw \in DOMAIN ret.first,
                       first |-> IF raw \in DOMAIN ret.first THEN ret.first
                                 ELSE Put(ret.first, raw,
                                          [value |-> out.value,
                                           ended |-> processed_count])]
            /\ cache' = out.obj.cache
            /\ failed_compounds' = out.obj.failed_compounds
            /\ processed_count' = out.obj.processed_count
            /\ success_count' = out.obj.success_count
            /\ strategy_stats' = out.obj.strategy_stats
            /\ UNCHANGED <<cfg, backend_errors, phase, fellback, tasks, results,
                           returned, at_fallback>>

\* between two calls a cascade of the run ends: with an identifier (cache,
\* strategy_stats, both counters) or without (failed_compounds, processed_count)
CascadeEnds ==
    /\ processed_count < MaxNames
    /\ \E name \in {N_ab, N_cd9, N_blank} \ (DOMAIN cache \cup failed_compounds) :
          \/ /\ cache' = cache_store(cache, name, CCO)
             /\ strategy_stats' = [strategy_stats EXCEPT !["name_direct"] = @ + 1]
             /\ success_count' = success_count + 1
             /\ UNCHANGED failed_compounds
          \/ /\ failed_compounds' = failed_compounds \cup {name}
             /\ UNCHANGED <<cache, strategy_stats, success_count>>
    /\ processed_count' = processed_count + 1
    /\ UNCHANGED <<cfg, backend_errors, phase, fellback, tasks, results, returned,
                   at_fallback, arg, ret>>

NextPurity == CallNormalizer \/ CascadeEnds

SpecPurity == InitPurity /\ [][NextPurity]_vars

----------------------------------------------------------------------------
(* A run of quick_smiles_lookup on three names, with its default            *)
(* max_workers=15, against the table (which answers the direct-name lookup  *)
(* of "curcumin" and of "quercetin" and no other query on these names) and  *)
(* without transport errors.                                                *)

ScenarioNames == <<N_curcumin, N_Curcumin95, N_quercetin>>

ScenarioConfig ==
    [entry |-> "quick_smiles_lookup", rows |-> ScenarioNames, compounds |-> ScenarioNames,
     variants |-> VariantsOf(ScenarioNames),
     use_async |-> TRUE, max_workers |-> 15, enable_fuzzy_search |-> TRUE,
     max_errors |-> 0]

InitScenario ==
    /\ cfg = ScenarioConfig
    /\ backend_errors = 0
    /\ phase = "idle"
    /\ fellback = FALSE
    /\ tasks = <<>>
    /\ cache = EmptyDict
    /\ failed_compounds = {}
    /\ processed_count = 0
    /\ success_count = 0
    /\ strategy_stats = ZeroStats
    /\ results = EmptyDict
    /\ returned = EmptyDict
    /\ at_fallback = [cached |-> {}, failed |-> {}]
    /\ arg = None
    /\ ret = None

SpecScenario == InitScenario /\ [][Next]_vars

\* C13: for the names curcumin, Curcumin (95%) and quercetin and a backend
\* that resolves exactly the direct-name queries "curcumin" and "quercetin",
\* the run resolves all three names (curcumin by the direct-name strategy,
\* Curcumin (95%) through its variant without the parenthetical) and each
\* name is in the cache under its own key.
C13_EndToEndScenario ==
    phase = "done"
        => /\ \A n \in {N_curcumin, N_Curcumin95, N_quercetin} :
                 /\ n \in DOMAIN results
                 /\ results[n] # None
                 /\ n \in DOMAIN cache
           /\ ~fellback
                 => \A i \in DOMAIN tasks :
                        /\ tasks[i].name = N_curcumin => tasks[i].method = "name_direct"
                        /\ tasks[i].name = N_Curcumin95
                              => /\ tasks[i].method = "name_direct"
                                 /\ tasks[i].log[Len(tasks[i].log)].v = 2

----------------------------------------------------------------------------
(* Runs of process_dataset in which any backend call, and all of them, can  *)
(* fail with a transport error.                                             *)

OutageLists == {<<N_ab>>, <<N_ij>>, <<N_ab, N_ij>>}

OutageConfigs ==
    {[entry |-> "process_dataset", rows |-> rows, compounds |-> drop_duplicates(rows),
      variants |-> VariantsOf(rows),
      use_async |-> a, max_workers |-> w, enable_fuzzy_search |-> TRUE,
      max_errors |-> 100] :
        rows \in OutageLists, a \in BOOLEAN, w \in {1, MaxWorkers}}

InitOutage ==
    /\ cfg \in OutageConfigs
    /\ backend_errors = 0
    /\ phase = "idle"
    /\ fellback = FALSE
    /\ tasks = <<>>
    /\ cache = EmptyDict
    /\ failed_compounds = {}
    /\ processed_count = 0
    /\ success_count = 0
    /\ strategy_stats = ZeroStats
    /\ results = EmptyDict
    /\ returned = EmptyDict
    /\ at_fallback = [cached |-> {}, failed |-> {}]
    /\ arg = None
    /\ ret = None

\* the event loop and the pool threads keep running what can run
SpecOutage == InitOutage /\ [][Next]_vars /\ WF_vars(Next)

\* the cascade of task i saw no transport error and began with its name
\* unresolved
Undisturbed(i) ==
    /\ tasks[i].log # <<>>
    /\ \A k \in 1..Len(tasks[i].log) : ~tasks[i].log[k].error

\* C17: whatever subset of the backend calls fails, all of them included,
\* the run completes; at its end every name has had its cascade and has an
\* outcome, a failure shows only as an absent identifier of a name recorded
\* in failed_compounds, and a name whose own calls did not fail has the
\* identifier it gets when it is resolved alone.
C17_ErrorIsolation ==
    /\ <>(phase = "done")
    /\ [](phase = "done"
            => /\ \A i \in DOMAIN tasks :
                    /\ tasks[i].st = "done"
                    /\ tasks[i].name \in DOMAIN results
                    /\ results[tasks[i].name] = None
                          => tasks[i].name \in failed_compounds
                    /\ Undisturbed(i)
                          => results[tasks[i].name]
                               = RunCascade(NewTask(tasks[i].name, tasks[i].pairs))
               /\ processed_count >= Len(cfg.compounds))

\* C17 witness: a run of two names has completed in which every call for one
\* name failed and the other name was resolved.
C17_Witness ==
    /\ phase = "done"
    /\ \E i, j \in DOMAIN tasks :
          /\ tasks[i].log # <<>>
          /\ \A k \in 1..Len(tasks[i].log) : tasks[i].log[k].error
          /\ results[tasks[i].name] = None
          /\ Undisturbed(j)
          /\ results[tasks[j].name] # None

----------------------------------------------------------------------------
(* The transport layer under one backend call.  The worker pool sends       *)
(* through self.session, a requests.Session whose adapter carries the Retry *)
(* of setup_session; the cooperative strategies send through the aiohttp    *)
(* session of async_process_compounds, which is built without any retry.    *)
(* The server's answers to the successive attempts are a script of status   *)
(* codes.                                                                   *)

\* Retry(total=4)
RetryTotal == 4

status_forcelist == {429, 500, 502, 503, 504, 520, 521, 522, 523, 524}

\* status codes the server answers with
Statuses == {200, 404, 429, 503}

\* whether the transport sends the request again after this status, having
\* retried `retries` times so far
transport_retries(mode, status, retries) ==
    mode = "sync" /\ status \in status_forcelist /\ retries < RetryTotal

CallInputs ==
    {[kind |-> "call", mode |-> m, script |-> s] :
        m \in {"async", "sync"}, s \in [1..(RetryTotal + 1) -> Statuses]}

InitTransport ==
    /\ EngineUnused
    /\ arg \in CallInputs
    /\ ret = [done |-> FALSE, attempts |-> 0, outcome |-> "pending"]

\* one attempt: the request is sent and the server answers script[attempts + 1];
\* the transport retries, or hands the cascade the response (status 200), or
\* the cascade sees a miss (another status, or the RetryError raised once the
\* retries are used up)
TransportAttempt ==
    /\ arg.kind = "call"
    /\ ~ret.done
    /\ LET status == arg.script[ret.attempts + 1]
       IN  ret' = IF transport_retries(arg.mode, status, ret.attempts)
                  THEN [ret EXCEPT !.attempts = @ + 1]
                  ELSE [done |-> TRUE, attempts |-> ret.attempts + 1,
                        outcome |-> IF status = 200 THEN "response" ELSE "miss"]
    /\ UNCHANGED <<engine_vars, arg>>

NextTransport == TransportAttempt

SpecTransport == InitTransport /\ [][NextTransport]_vars

\* status 429 or 5xx
Transient(status) == status = 429 \/ status \in 500..599

\* C19: in both execution modes, a response with status 429 or 5xx is
\* retried by the transport layer: it is surfaced to the cascade as a miss
\* only when the retries (a bounded number) are used up.
C19_TransientRetried ==
    (arg.kind = "call" /\ ret.done /\ Transient(arg.script[ret.attempts]))
        => /\ ret.outcome = "miss"
           /\ ret.attempts = 1 + RetryTotal

----------------------------------------------------------------------------
(* process_dataset to its end: the run can be interrupted by the operator,  *)
(* the worker pool of the except branch can raise, and a run that completes *)
(* maps the results onto the rows and writes the dataset.                   *)

AbortConfigs ==
    {DatasetConfig(rows, a, w, TRUE) :
        rows \in {<<N_ab>>, <<N_ab, N_cd9>>}, a \in BOOLEAN, w \in {1, MaxWorkers}}

InitAbort ==
    /\ cfg \in AbortConfigs
    /\ backend_errors = 0
    /\ phase = "idle"
    /\ fellback = FALSE
    /\ tasks = <<>>
    /\ cache = EmptyDict
    /\ failed_compounds = {}
    /\ processed_count = 0
    /\ success_count = 0
    /\ strategy_stats = ZeroStats
    /\ results = EmptyDict
    /\ returned = EmptyDict
    /\ at_fallback = [cached |-> {}, failed |-> {}]
    /\ arg = None
    /\ ret = None

\* KeyboardInterrupt while the compounds are processed: it is no Exception,
\* the except branch does not take it, and process_dataset unwinds
Interrupt ==
    /\ phase \in {"async", "sync"}
    /\ phase' = "interrupted"
    /\ UNCHANGED <<cfg, backend_errors, fellback, tasks, cache, failed_compounds,
                   processed_count, success_count, strategy_stats, results, returned,
                   at_fallback, arg, ret>>

\* sync_process_compounds raises inside the except branch: nothing around it
\* catches, and process_dataset unwinds
FallbackFails ==
    /\ phase = "sync"
    /\ fellback
    /\ phase' = "crashed"
    /\ UNCHANGED <<cfg, backend_errors, fellback, tasks, cache, failed_compounds,
                   processed_count, success_count, strategy_stats, results, returned,
                   at_fallback, arg, ret>>

\* a join that lays the results of the distinct names side by side with
\* the rows, position by position
map_by_position(rows, smiles_results) ==
    [r \in 1..Len(rows) |->
        IF r <= Len(drop_duplicates(rows)) /\ drop_duplicates(rows)[r] \in DOMAIN smiles_results
        THEN smiles_results[drop_duplicates(rows)[r]] ELSE None]

\* df[compound_column].map(smiles_results): the value the mapping holds for
\* the row's name, absent when it holds none
map(rows, smiles_results) ==
    [r \in 1..Len(rows) |->
        IF rows[r] \in DOMAIN smiles_results THEN smiles_results[rows[r]] ELSE None]

\* df['CanonicalSMILES'] = df[compound_column].map(smiles_results), then
\* df.to_csv(output_file_path): ret is the column written
WriteOutput ==
    /\ phase = "done"
    /\ phase' = "written"
    /\ ret' = [done |-> TRUE, value |-> map(cfg.rows, results)]
    /\ UNCHANGED <<cfg, backend_errors, fellback, tasks, cache, failed_compounds,
                   processed_count, success_count, strategy_stats, results, returned,
                   at_fallback, arg>>

NextAbort == Next \/ Interrupt \/ FallbackFails \/ WriteOutput

SpecAbort == InitAbort /\ [][NextAbort]_vars

\* C20: when the run is interrupted by the operator, or when the worker-pool
\* fallback fails too, process_dataset has still written the dataset, and
\* the dataset written holds every outcome that had completed.
C20_PartialResultsSurvive ==
    phase \in {"interrupted", "crashed"}
        => /\ ret # None
           /\ \A r \in 1..Len(cfg.rows) :
                 cfg.rows[r] \in DOMAIN results => ret.value[r] = results[cfg.rows[r]]

----------------------------------------------------------------------------
(* process_dataset on datasets in which names repeat over the rows.         *)

JoinRows ==
    {<<N_ab, N_ij, N_ab>>, <<N_ij, N_ab, N_ab>>, <<N_ij, N_ij>>, <<N_ab, N_cd9, N_ab>>}

JoinConfigs ==
    {DatasetConfig(rows, a, w, TRUE) :
        rows \in JoinRows, a \in BOOLEAN, w \in {1, MaxWorkers}}

InitJoin ==
    /\ cfg \in JoinConfigs
    /\ backend_errors = 0
    /\ phase = "idle"
    /\ fellback = FALSE
    /\ tasks = <<>>
    /\ cache = EmptyDict
    /\ failed_compounds = {}
    /\ processed_count = 0
    /\ success_count = 0
    /\ strategy_stats = ZeroStats
    /\ results = EmptyDict
    /\ returned = EmptyDict
    /\ at_fallback = [cached |-> {}, failed |-> {}]
    /\ arg = None
    /\ ret = None

NextJoin == Next \/ WriteOutput

SpecJoin == InitJoin /\ [][NextJoin]_vars

\* the outcome the run's cascade of the name ended with
OutcomeOf(name) ==
    LET i == CHOOSE j \in DOMAIN tasks : tasks[j].name = name
    IN  tasks[i].smiles

\* C21: the dataset written has the rows of the dataset read, one for one;
\* every row carries the identifier the run produced for the row's name, so
\* rows that share a name carry the same identifier, and a row whose name
\* was not resolved carries none.
C21_OneToManyJoin ==
    phase = "written" =>
        /\ DOMAIN ret.value = DOMAIN cfg.rows
        /\ \A r \in DOMAIN cfg.rows : ret.value[r] = OutcomeOf(cfg.rows[r])
        /\ \A r, s \in DOMAIN cfg.rows :
              cfg.rows[r] = cfg.rows[s] => ret.value[r] = ret.value[s]

\* a dataset written in which two rows share a resolved name and a third
\* row's name is unresolved
C21_Witness ==
    /\ phase = "written"
    /\ \E r, s, u \in DOMAIN cfg.rows :
          /\ r # s /\ cfg.rows[r] = cfg.rows[s] /\ ret.value[r] # None
          /\ ret.value[u] = None

----------------------------------------------------------------------------
(* Further properties of the cascades and of the controller.                *)

NamesOf(rows) == {rows[i] : i \in DOMAIN rows}

C23_NoLostUpdates ==
    phase = "done" =>
        \A i \in DOMAIN tasks :
            /\ tasks[i].smiles # None =>
                  tasks[i].name \in DOMAIN cache /\ cache[tasks[i].name] = tasks[i].smiles
            /\ tasks[i].method = "all_failed" => tasks[i].name \in failed_compounds

----------------------------------------------------------------------------
(* Runs on names that the direct-name lookup resolves, two at a time.       *)

PoolRows == {<<N_curcumin, N_quercetin>>, <<N_ab, N_quercetin>>, <<N_curcumin, N_ij>>}

PoolConfigs ==
    {DatasetConfig(rows, a, w, TRUE) :
        rows \in PoolRows, a \in BOOLEAN, w \in {1, MaxWorkers}}

InitPool ==
    /\ cfg \in PoolConfigs
    /\ backend_errors = 0
    /\ phase = "idle"
    /\ fellback = FALSE
    /\ tasks = <<>>
    /\ cache = EmptyDict
    /\ failed_compounds = {}
    /\ processed_count = 0
    /\ success_count = 0
    /\ strategy_stats = ZeroStats
    /\ results = EmptyDict
    /\ returned = EmptyDict
    /\ at_fallback = [cached |-> {}, failed |-> {}]
    /\ arg = None
    /\ ret = None

SpecPool == InitPool /\ [][Next]_vars

\* C24: at the end of a worker-pool run no increment of the statistics is
\* lost: processed_count is the number of cascades that completed,
\* success_count the number that returned an identifier, and the counter of
\* each strategy the number of cascades that strategy resolved.
C24_SynchronizedStatistics ==
    (phase = "done" /\ ~cfg.use_async) =>
        /\ processed_count = Cardinality(DOMAIN tasks)
        /\ success_count = Cardinality({i \in DOMAIN tasks : tasks[i].smiles # None})
        /\ \A k \in StatKeys :
              strategy_stats[k] = Cardinality({i \in DOMAIN tasks : tasks[i].method = k})

NotFuzzy(p) == p.strategy # "fuzzy_search"

\* C25: with enable_fuzzy_search false no cascade of the run issues a
\* wildcard request, and every cooperative cascade visits the direct-name,
\* CID, synonym and POST strategies on every variant in the order it visits
\* them with the switch on.
C25_FuzzySwitch ==
    ~cfg.enable_fuzzy_search =>
        \A i \in DOMAIN tasks :
            /\ \A k \in 1..Len(tasks[i].log) :
                  /\ tasks[i].log[k].strategy # "fuzzy_search"
                  /\ tasks[i].log[k].kind # "wild_cids"
                  /\ tasks[i].log[k].q = <<>> \/ tasks[i].log[k].q[Len(tasks[i].log[k].q)] # "*"
            /\ phase = "async" =>
                  tasks[i].pairs =
                      SelectSeq(async_pairs(cfg.variants[tasks[i].name], TRUE), NotFuzzy)

\* with the switch off, a cooperative cascade has gone through its last
\* strategy, the POST strategy, and ended without an identifier
C25_Witness ==
    /\ ~cfg.enable_fuzzy_search
    /\ phase = "async"
    /\ \E i \in DOMAIN tasks :
          /\ tasks[i].st = "done" /\ tasks[i].method = "all_failed"
          /\ tasks[i].log # <<>>
          /\ tasks[i].log[Len(tasks[i].log)].strategy = "post_request"

----------------------------------------------------------------------------
(* process_dataset called again on the engine that has just finished a run. *)

RerunConfigs ==
    {DatasetConfig(rows, a, w, TRUE) :
        rows \in {<<N_ab, N_ij>>, <<N_ab>>, <<N_cd9, N_blank>>},
        a \in BOOLEAN, w \in {1, MaxWorkers}}

InitRerun ==
    /\ cfg \in RerunConfigs
    /\ backend_errors = 0
    /\ phase = "idle"
    /\ fellback = FALSE
    /\ tasks = <<>>
    /\ cache = EmptyDict
    /\ failed_compounds = {}
    /\ processed_count = 0
    /\ success_count = 0
    /\ strategy_stats = ZeroStats
    /\ results = EmptyDict
    /\ returned = EmptyDict
    /\ at_fallback = [cached |-> {}, failed |-> {}]
    /\ arg = None
    /\ ret = None

\* process_dataset has returned and the caller calls it again on the same
\* engine: the attributes of the engine are as the first run left them
\* (arg: history, what the first run left behind)
CallAgain ==
    /\ phase = "done"
    /\ arg = None
    /\ phase' = "idle"
    /\ arg' = [kind |-> "second run",
               left |-> [cache |-> cache, failed_compounds |-> failed_compounds,
                         processed_count |-> processed_count,
                         success_count |-> success_count,
                         strategy_stats |-> strategy_stats]]
    /\ fellback' = FALSE
    /\ returned' = EmptyDict
    /\ at_fallback' = [cached |-> {}, failed |-> {}]
    /\ UNCHANGED <<cfg, backend_errors, tasks, cache, failed_compounds, processed_count,
                   success_count, strategy_stats, results, ret>>

NextRerun == Next \/ CallAgain

SpecRerun == InitRerun /\ [][NextRerun]_vars

\* the primary mode has been called and no cascade of the run has begun
BeforeFirstCascade ==
    /\ phase \in {"async", "sync"}
    /\ ~fellback
    /\ \A i \in DOMAIN tasks : tasks[i].st = "waiting"

\* C26: before the first cascade of a run of process_dataset begins, the
\* cache, failed_compounds and the per-strategy counts are empty and
\* processed_count and success_count are zero, whatever the run before it
\* left in the engine.
C26_ColdStart ==
    BeforeFirstCascade =>
        /\ cache = EmptyDict
        /\ failed_compounds = {}
        /\ strategy_stats = ZeroStats
        /\ processed_count = 0
        /\ success_count = 0

\* a second run is about to begin its cascades on an engine whose first run
\* left a cached name, a failed name and non-zero counters
C26_Witness ==
    /\ BeforeFirstCascade
    /\ arg # None
    /\ arg.left.cache # EmptyDict
    /\ arg.left.failed_compounds # {}
    /\ arg.left.processed_count > 0
    /\ arg.left.success_count > 0
    /\ arg.left.strategy_stats # ZeroStats

----------------------------------------------------------------------------
(* Further properties of the cache and of the cascades.                     *)

\* C27: within a run no step removes a name from the cache or changes the
\* identifier the cache holds for it.
C27_AppendOnlyCache ==
    [][\A name \in DOMAIN cache :
           name \in DOMAIN cache' /\ cache'[name] = cache[name]]_vars

\* the cascade of one name run alone against the table, from its first
\* request to its end: the identifier it returns and the strategy that won
RECURSIVE RunAlone(_)
RunAlone(t) ==
    IF t.pi > Len(t.pairs) THEN [smiles |-> None, method |-> "all_failed"]
    ELSE LET req == NextRequest(t)
             smiles == Yield(req, FALSE)
         IN  IF hit_returns(req, smiles) THEN [smiles |-> smiles, method |-> req.strategy]
             ELSE RunAlone(AfterMiss(t, req, FALSE))

\* C28: for a backend that answers from its table (no transport error, no
\* failure of the primary mode) and pairwise distinct names, every cascade
\* of a completed run ends with the identifier and the winning strategy that
\* the cascade of its name has when it runs alone, whatever the order in
\* which the cascades were admitted, took their steps and completed.
C28_Independence ==
    (phase = "done" /\ ~fellback /\ backend_errors = 0 /\ ~HasDuplicates(cfg.compounds))
        => \A i \in DOMAIN tasks :
              \E alone \in {RunAlone(NewTask(tasks[i].name, tasks[i].pairs))} :
                  /\ tasks[i].smiles = alone.smiles
                  /\ tasks[i].method = alone.method
                  /\ results[tasks[i].name] = alone.smiles

\* two cascades of different names ran side by side, each issued requests,
\* and the run has completed with one name resolved and one not
C28_Witness ==
    /\ phase = "done" /\ ~fellback /\ backend_errors = 0
    /\ cfg.max_workers = MaxWorkers
    /\ \E i, j \in DOMAIN tasks :
          /\ tasks[i].name # tasks[j].name
          /\ Len(tasks[i].log) > 1 /\ Len(tasks[j].log) > 1
          /\ tasks[i].smiles # None /\ tasks[j].smiles = None

\* the first requests of the strategies the claim names
RequiredKinds ==
    {"name_prop", "name_cids", "name_syn", "post_prop"}
        \cup (IF cfg.enable_fuzzy_search THEN {"wild_cids"} ELSE {})

\* the cascade issued the first request of the strategy for the variant
Attempted(t, kind, v) ==
    \E k \in 1..Len(t.log) :
        /\ t.log[k].v = v
        /\ t.log[k].kind = kind
        /\ primary_kind(t.log[k].strategy) = kind

\* C29: in either mode, a cascade that added its name to failed_compounds
\* had attempted the direct-name, CID, synonym and POST strategies, and the
\* fuzzy strategy when it is enabled, on every variant of the name, none of
\* them yielding an accepted identifier, and it returned no identifier.
C29_RegistrationAfterExhaustion ==
    \A i \in DOMAIN tasks :
        tasks[i].method = "all_failed" =>
            /\ tasks[i].name \in failed_compounds
            /\ tasks[i].smiles = None
            /\ \A k \in 1..Len(tasks[i].log) : ~tasks[i].log[k].accepted
            /\ \A kind \in RequiredKinds :
               \A v \in 1..Len(cfg.variants[tasks[i].name]) :
                   Attempted(tasks[i], kind, v)

\* the response to the request held a value and no value the validator accepts
Rejected(entry) ==
    /\ IsPropertyRequest(entry)
    /\ ~entry.error
    /\ Backend(entry.kind, entry.q) # <<>>
    /\ \A k \in DOMAIN Backend(entry.kind, entry.q) :
          ~validate_smiles(Backend(entry.kind, entry.q)[k])

\* C30: every identifier in the cache, every identifier a cascade ended
\* with and every non-absent value of the result mapping is accepted by
\* validate_smiles; a response whose values all fail the validator yields no
\* identifier, and the cascade that received it goes on: it does not end
\* with an identifier at that request.
C30_OnlyValidatedKept ==
    /\ \A name \in DOMAIN cache : validate_smiles(StrVal(cache[name]))
    /\ \A name \in DOMAIN results :
          results[name] = None \/ validate_smiles(StrVal(results[name]))
    /\ \A i \in DOMAIN tasks :
          /\ tasks[i].smiles = None \/ validate_smiles(StrVal(tasks[i].smiles))
          /\ \A k \in 1..Len(tasks[i].log) :
                Rejected(tasks[i].log[k])
                    => /\ ~tasks[i].log[k].accepted
                       /\ k = Len(tasks[i].log)
                             => (tasks[i].st = "running" \/ tasks[i].smiles = None)

\* a cascade received a response that failed the validator, went on, and
\* ended with an identifier that is now in the cache
C30_Witness ==
    \E i \in DOMAIN tasks :
        /\ tasks[i].st = "done"
        /\ tasks[i].smiles # None
        /\ tasks[i].name \in DOMAIN cache
        /\ \E k \in 1..Len(tasks[i].log) :
              Rejected(tasks[i].log[k]) /\ k < Len(tasks[i].log)

----------------------------------------------------------------------------
(* The runs of process_dataset alone: the distinct names of a dataset.      *)

ProcessDatasetConfigs == {c \in Configs : c.entry = "process_dataset"}

InitDataset ==
    /\ cfg \in ProcessDatasetConfigs
    /\ backend_errors = 0
    /\ phase = "idle"
    /\ fellback = FALSE
    /\ tasks = <<>>
    /\ cache = EmptyDict
    /\ failed_compounds = {}
    /\ processed_count = 0
    /\ success_count = 0
    /\ strategy_stats = ZeroStats
    /\ results = EmptyDict
    /\ returned = EmptyDict
    /\ at_fallback = [cached |-> {}, failed |-> {}]
    /\ arg = None
    /\ ret = None

SpecDataset == InitDataset /\ [][Next]_vars

----------------------------------------------------------------------------
(* Runs on names for which the lookup service returns more CIDs and more    *)
(* synonyms than a strategy follows.                                        *)

CapsConfigs ==
    {DatasetConfig(rows, a, w, TRUE) :
        rows \in {<<N_gh>>, <<N_cd9>>, <<N_ab, N_cd>>, <<N_gh, N_cd9>>},
        a \in BOOLEAN, w \in {1, MaxWorkers}}

InitCaps ==
    /\ cfg \in CapsConfigs
    /\ backend_errors = 0
    /\ phase = "idle"
    /\ fellback = FALSE
    /\ tasks = <<>>
    /\ cache = EmptyDict
    /\ failed_compounds = {}
    /\ processed_count = 0
    /\ success_count = 0
    /\ strategy_stats = ZeroStats
    /\ results = EmptyDict
    /\ returned = EmptyDict
    /\ at_fallback = [cached |-> {}, failed |-> {}]
    /\ arg = None
    /\ ret = None

SpecCaps == InitCaps /\ [][Next]_vars

\* the requests of a cascade that follow up items of a list, for one pair
SubRequests(t, S, v, kind) ==
    {k \in 1..Len(t.log) :
        /\ t.log[k].strategy = S /\ t.log[k].v = v
        /\ t.log[k].kind = kind /\ primary_kind(S) # kind}

\* C31: for one (strategy, variant) pair a cascade issues at most 3 CID
\* property lookups and at most 5 synonym re-lookups, however many CIDs or
\* synonyms the lookup service returned.
C31_SubRequestCaps ==
    \A i \in DOMAIN tasks :
        \A S \in StatKeys :
        \A v \in 1..Len(cfg.variants[tasks[i].name]) :
            /\ Cardinality(SubRequests(tasks[i], S, v, "cid_prop")) <= 3
            /\ Cardinality(SubRequests(tasks[i], S, v, "name_prop")) <= 5

\* a cascade followed 5 of the 6 synonyms it was given and went on to the
\* next strategy, and a cascade followed 3 of the 4 CIDs it was given
C31_Witness ==
    /\ \E i \in DOMAIN tasks :
          /\ Cardinality(SubRequests(tasks[i], "synonym_based", 1, "name_prop")) = 5
          /\ Len(Backend("name_syn", cfg.variants[tasks[i].name][1])) > 5
          /\ tasks[i].log[Len(tasks[i].log)].strategy = "post_request"
    /\ \E j \in DOMAIN tasks : \E v \in 1..Len(cfg.variants[tasks[j].name]) :
          /\ Cardinality(SubRequests(tasks[j], "cid_based", v, "cid_prop")) = 3
          /\ Len(Backend("name_cids", cfg.variants[tasks[j].name][v])) > 3

----------------------------------------------------------------------------
(* clean_compound_name applied to names with Greek letters.                 *)

\* the Greek small letters alpha and beta
Alpha == "U+03B1"
Beta == "U+03B2"

\* alpha as the table of the source file holds it, then -a (b) [c]
N_held_alpha == <<"U+0152", "U+00B1", "-", "a", " ", "(", "b", ")", " ", "[", "c", "]">>

GreekAlphabet == {"a", Alpha, Beta, "-", "("}

GreekInputs ==
    UNION {[1..n -> GreekAlphabet] : n \in 0..MaxRawLen} \cup {N_held_alpha}

InitGreek ==
    /\ EngineUnused
    /\ arg \in {[kind |-> "name", val |-> s] : s \in GreekInputs}
    /\ ret = [done |-> FALSE, value |-> <<>>]

SpecGreek == InitGreek /\ [][NextNormalize]_vars

\* the Latin spelled-out names of the Greek letters
LatinName(c) ==
    CASE c = Alpha -> <<"a", "l", "p", "h", "a">>
      [] c = Beta -> <<"b", "e", "t", "a">>
      [] OTHER -> <<c>>

RECURSIVE Transliterated(_)
Transliterated(s) ==
    IF s = <<>> THEN <<>> ELSE LatinName(Head(s)) \o Transliterated(Tail(s))

HasGreek(s) == \E k \in 1..Len(s) : s[k] \in {Alpha, Beta}

\* C32: for every name of two characters or more that contains a Greek
\* letter, the variants clean_compound_name returns include the name with
\* each Greek letter replaced by its Latin spelled-out name; this is so for
\* the Greek letters themselves and for the letters as the table of the
\* source holds them, also in a name with parentheses, brackets and
\* separators.
C32_GreekTransliteration ==
    (arg.kind = "name" /\ ret.done /\ Len(strip(arg.val)) >= 2)
        => /\ HasGreek(arg.val) =>
                 InSeq(Transliterated(strip(collapse_ws(strip(arg.val)))), ret.value)
           /\ Contains(arg.val, <<"U+0152", "U+00B1">>) =>
                 InSeq(greek_replace(strip(collapse_ws(strip(arg.val))), greek_replacements),
                       ret.value)

----------------------------------------------------------------------------
(* Further properties of runs with repeated names and of the fallback.      *)

\* C33: when the input list holds a name more than once, at most one of the
\* cascades of that name issues backend requests; the others end without a
\* request.
C33_NoDuplicateTraffic ==
    \A i, j \in DOMAIN tasks :
        (i # j /\ tasks[i].name = tasks[j].name)
            => (tasks[i].log = <<>> \/ tasks[j].log = <<>>)

\* C34: in a run over pairwise distinct names, the fallback from cooperative
\* to worker-pool mode included, no name is at once a key of the cache and a
\* member of failed_compounds.
C34_CacheRegistryDisjoint ==
    ~HasDuplicates(cfg.compounds) => DOMAIN cache \cap failed_compounds = {}

\* after the fallback the worker pool has finished a name that the
\* cooperative phase had registered as failed, while another name is cached
C34_Witness ==
    /\ fellback
    /\ cache # EmptyDict
    /\ \E i \in DOMAIN tasks :
          /\ tasks[i].st = "done"
          /\ tasks[i].name \in at_fallback.failed
          /\ cfg.variants[tasks[i].name] # <<>>

\* C35: when the cooperative mode failed and the worker pool finished the
\* run, the mapping returned gives every name that was in the cache at the
\* failure the identifier the cooperative phase had returned for it, and
\* gives every name that was then in failed_compounds no identifier.
C35_ResultsSurviveFallback ==
    (phase = "done" /\ fellback) =>
        /\ \A name \in at_fallback.cached :
              name \in DOMAIN results /\ results[name] = returned[name]
        /\ \A name \in at_fallback.failed :
              name \in DOMAIN results /\ results[name] = None

\* a run that fell back with one name resolved and one registered as failed
\* has completed
C35_Witness ==
    /\ phase = "done"
    /\ fellback
    /\ at_fallback.cached # {}
    /\ at_fallback.failed # {}

----------------------------------------------------------------------------
(* Termination, with every backend call returning or raising.               *)

Waiting(i) == i \in DOMAIN tasks /\ tasks[i].st = "waiting"

\* C36: every run completes with a finished cascade for every input name;
\* every cascade that waits for the semaphore or for a pool thread is
\* admitted, and when the run has completed no cascade holds a slot.
C36_Termination ==
    /\ <>(/\ phase = "done"
          /\ DOMAIN tasks = DOMAIN cfg.compounds
          /\ \A i \in DOMAIN tasks : tasks[i].st = "done")
    /\ \A i \in 1..MaxNames : Waiting(i) ~> ~Waiting(i)
    /\ [](phase = "done" => \A i \in DOMAIN tasks : ~Running(tasks[i]))

\* a run of two names with one slot has completed: one cascade had to wait
\* for the other, and one of them ended on a miss after a transport error
C36_Witness ==
    /\ phase = "done"
    /\ cfg.max_workers = 1
    /\ Len(tasks) = 2
    /\ \E i \in DOMAIN tasks :
          /\ tasks[i].smiles = None
          /\ \E k \in 1..Len(tasks[i].log) : tasks[i].log[k].error

----------------------------------------------------------------------------
(* Runs on a name with more than five variants, for each of which the       *)
(* lookup service returns more CIDs and synonyms than a strategy follows    *)
(* and no identifier.                                                       *)

CostConfigs ==
    {DatasetConfig(rows, a, w, TRUE) :
        rows \in {<<N_klmn>>, <<N_ab, N_klmn>>}, a \in BOOLEAN, w \in {1, MaxWorkers}}

InitCost ==
    /\ cfg \in CostConfigs
    /\ backend_errors = 0
    /\ phase = "idle"
    /\ fellback = FALSE
    /\ tasks = <<>>
    /\ cache = EmptyDict
    /\ failed_compounds = {}
    /\ processed_count = 0
    /\ success_count = 0
    /\ strategy_stats = ZeroStats
    /\ results = EmptyDict
    /\ returned = EmptyDict
    /\ at_fallback = [cached |-> {}, failed |-> {}]
    /\ arg = None
    /\ ret = None

SpecCost == InitCost /\ [][Next]_vars

\* the cascades in `tasks` are those of the worker pool
PoolCascades == fellback \/ ~cfg.use_async

\* C37: a cooperative cascade issues at most 75 backend requests and a
\* worker-pool cascade at most 20.
C37_BoundedCost ==
    \A i \in DOMAIN tasks :
        Len(tasks[i].log) <= IF PoolCascades THEN 20 ELSE 75

\* a cooperative cascade has ended after exactly 75 requests, on a name with
\* five variants
C37_Witness ==
    /\ ~PoolCascades
    /\ \E i \in DOMAIN tasks :
          /\ tasks[i].st = "done"
          /\ Len(cfg.variants[tasks[i].name]) = 5
          /\ Len(tasks[i].log) = 75

----------------------------------------------------------------------------
(* Properties of the counters.                                              *)

\* C38: in every state of a run, and so in every snapshot update_progress
\* prints from inside its critical section, success_count is at most
\* processed_count.
C38_CounterOrdering ==
    /\ success_count <= processed_count
    /\ success_count >= 0

\* in the second run on an engine, cascades have completed with and without
\* an identifier
C38_Witness ==
    /\ arg # None
    /\ phase \in {"async", "sync"}
    /\ success_count > 0
    /\ processed_count > success_count

----------------------------------------------------------------------------
(* get_smiles of pythochemical_name_main.py: the retry loop around          *)
(* fetch_smiles.  The outcomes of the successive calls of fetch_smiles are  *)
(* a script: None (an error or a response without a download link), an     *)
(* empty list, or a list of rows.                                           *)

\* max_retries=3
DefaultMaxRetries == 3

FetchOutcomes == {"None", "empty", "rows"}

GetSmilesInputs ==
    {[kind |-> "get_smiles", max_retries |-> m, script |-> s] :
        m \in 0..(DefaultMaxRetries + 1), s \in [1..(DefaultMaxRetries + 1) -> FetchOutcomes]}

InitRetry ==
    /\ EngineUnused
    /\ arg \in GetSmilesInputs
    /\ ret = [done |-> FALSE, attempt |-> 0, calls |-> 0, waits |-> <<>>, value |-> "pending"]

\* a loop that sleeps after every attempt that fails
sleeps_after_every_attempt(attempt, max_retries) == TRUE

\* `if attempt < max_retries - 1`
sleeps_after(attempt, max_retries) == attempt < max_retries - 1

\* time.sleep(2 ** attempt)
backoff(attempt) == 2 ^ attempt

\* one pass of `for attempt in range(max_retries)`: the call of fetch_smiles,
\* the return of its rows when it has any, and otherwise the sleep
Attempt ==
    /\ arg.kind = "get_smiles"
    /\ ~ret.done
    /\ ret.attempt < arg.max_retries
    /\ LET results_ == arg.script[ret.attempt + 1]
       IN  IF results_ = "rows"
           THEN ret' = [ret EXCEPT !.done = TRUE, !.calls = @ + 1, !.value = "DataFrame"]
           ELSE ret' = [ret EXCEPT !.attempt = @ + 1, !.calls = @ + 1,
                                   !.waits = IF sleeps_after(ret.attempt, arg.max_retries)
                                             THEN Append(@, backoff(ret.attempt)) ELSE @]
    /\ UNCHANGED <<engine_vars, arg>>

\* `return None, 0` after the loop
GiveUp ==
    /\ arg.kind = "get_smiles"
    /\ ~ret.done
    /\ ret.attempt >= arg.max_retries
    /\ ret' = [ret EXCEPT !.done = TRUE, !.value = "None"]
    /\ UNCHANGED <<engine_vars, arg>>

NextRetry == Attempt \/ GiveUp

SpecRetry == InitRetry /\ [][NextRetry]_vars

\* the attempts that yield rows, among those get_smiles may make
Successful == {k \in 1..arg.max_retries : arg.script[k] = "rows"}

FirstSuccessful == CHOOSE k \in Successful : \A j \in Successful : k <= j

\* what C39 says of the calls and of the value returned
RetryOutcome ==
    /\ ret.calls <= arg.max_retries
    /\ Successful # {} => ret.value = "DataFrame" /\ ret.calls = FirstSuccessful
    /\ Successful = {} => ret.value = "None" /\ ret.calls = arg.max_retries

----------------------------------------------------------------------------
(* fetch_phytochemicals of Optimized.py and of first-slow-deep.py: the      *)
(* page-harvesting loop.  The site is a script of pages; a page has rows    *)
(* of data ("data"), rows none of which is a data row ("blank"), no row at  *)
(* all ("norows"), or cannot be read ("error").  The next button is enabled *)
(* on every page but the last one of the site.                              *)

MaxPages == 4

\* max_pages = 50
first_slow_deep_max_pages == 50

PageKinds == {"data", "blank", "norows", "error"}

\* `if no_data_streak >= 3` and `if no_new_data_count >= 2`
streak_limit(file) == IF file = "Optimized" THEN 3 ELSE 2

FetchInputs ==
    {[kind |-> "fetch_phytochemicals", file |-> "Optimized", max_pages |-> m,
      pages |-> s, last |-> n] :
        m \in 1..MaxPages, s \in [1..MaxPages -> PageKinds], n \in 1..MaxPages}
    \cup
    {[kind |-> "fetch_phytochemicals", file |-> "first-slow-deep",
      max_pages |-> first_slow_deep_max_pages, pages |-> s, last |-> n] :
        s \in [1..MaxPages -> PageKinds], n \in 1..MaxPages}

InitPages ==
    /\ EngineUnused
    /\ arg \in FetchInputs
    /\ ret = [done |-> FALSE, page_num |-> 1, previous_count |-> 0,
              no_data_streak |-> 0, results |-> <<>>, visited |-> 0,
              reason |-> "running"]

\* the next button of page p
has_next(p) == p < arg.last

\* one pass of `while page_num <= max_pages`
HarvestPage ==
    /\ arg.kind = "fetch_phytochemicals"
    /\ ~ret.done
    /\ ret.page_num <= arg.max_pages
    /\ LET p         == ret.page_num
           page      == arg.pages[p]
           seen      == [ret EXCEPT !.visited = @ + 1]
           streak    == IF page = "data" THEN 0 ELSE ret.no_data_streak + 1
           harvested == IF page = "data" THEN Append(ret.results, p) ELSE ret.results
           Stop(why) == [seen EXCEPT !.done = TRUE, !.reason = why,
                                     !.no_data_streak = streak, !.results = harvested]
       IN  IF page = "error"
           THEN ret' = [seen EXCEPT !.done = TRUE, !.reason = "error"]
           ELSE IF page = "norows"
           THEN ret' = [seen EXCEPT !.done = TRUE, !.reason = "no rows"]
           ELSE IF page = "blank" /\ streak >= streak_limit(arg.file)
           THEN ret' = Stop("empty pages")
           ELSE IF Len(harvested) = ret.previous_count
           THEN ret' = Stop("no new results")
           ELSE IF ~has_next(p)
           THEN ret' = [Stop("no next page") EXCEPT !.previous_count = Len(harvested)]
           ELSE IF arg.file = "Optimized" /\ arg.pages[p + 1] = "norows"
           THEN ret' = [Stop("timeout") EXCEPT !.previous_count = Len(harvested)]
           ELSE ret' = [seen EXCEPT !.page_num = p + 1, !.no_data_streak = streak,
                                    !.results = harvested,
                                    !.previous_count = Len(harvested)]
    /\ UNCHANGED <<engine_vars, arg>>

\* the loop condition fails: page_num > max_pages
PagesExhausted ==
    /\ arg.kind = "fetch_phytochemicals"
    /\ ~ret.done
    /\ ret.page_num > arg.max_pages
    /\ ret' = [ret EXCEPT !.done = TRUE, !.reason = "max_pages"]
    /\ UNCHANGED <<engine_vars, arg>>

NextPages == HarvestPage \/ PagesExhausted

SpecPages == InitPages /\ [][NextPages]_vars

\* the two exits of the loop that stop it for lack of data
LackOfData == {"empty pages", "no new results"}

\* page p has no data, the page after it has, and the site and max_pages
\* allow the loop to go on to that page
SingleEmptyPage(p) ==
    /\ p + 1 <= arg.last
    /\ p + 1 <= arg.max_pages
    /\ arg.pages[p] = "blank"
    /\ arg.pages[p + 1] = "data"

\* C40: the loop stops for lack of data only after 3 (Optimized.py) or 2
\* (first-slow-deep.py) consecutive empty pages; a single empty page
\* followed by a non-empty page does not end the scrape; the loop never
\* visits more than max_pages pages.
C40_PaginationTolerance ==
    (arg.kind = "fetch_phytochemicals") =>
        /\ (ret.done /\ ret.reason \in LackOfData)
              => ret.no_data_streak >= streak_limit(arg.file)
        /\ \A p \in 1..(MaxPages - 1) :
              (ret.done /\ ret.visited >= p /\ SingleEmptyPage(p))
                  => ret.visited >= p + 1
        /\ ret.visited <= arg.max_pages

\* the part of C40 that the loops keep: no more than max_pages pages visited
C40_MaxPages ==
    (arg.kind = "fetch_phytochemicals") => ret.visited <= arg.max_pages

====
